---- MODULE Spec2Model ----
(***************************************************************************)
(* Fort Worth permit comments: the text-to-record parser and its batch     *)
(* driver (src/ftworth/convert_to_text.sh, the TypeScript part).           *)
(*                                                                         *)
(* A document is a sequence of chunks.  A chunk stands for a piece of text *)
(* the parser's regular expressions recognise as a unit; consecutive       *)
(* chunks are separated by one newline, and every chunk begins with a      *)
(* letter, "(" or ":" so that a greedy character class never runs from one *)
(* chunk into the next.  A chunk is a record [k, v]: k names the kind and  *)
(* fixes the literal text, v is the variable text (a tuple of one-char     *)
(* strings) the regular expressions capture from.  The characters outside  *)
(* ASCII are written by name: "half" (one half), "en-dash", "em-dash".     *)
(*                                                                         *)
(* JavaScript values: null is JsNull, a number n is Num(100 * n) (numbers  *)
(* are kept in hundredths), a string is Str(text), an array is Arr(seq),  *)
(* an object is a record.                                                  *)
(***************************************************************************)
EXTENDS Integers, Sequences, FiniteSets, TLC

\* ------------------------------------------------------------------------
\* Bounds of the model
\* ------------------------------------------------------------------------
MaxFiles == 2
MaxZoningLen == 3
MaxSections == 3
MaxBlocks == 2
MaxItems == 2
MaxFields == 2
MaxRows == 3
MaxSideLen == 3
MaxRetries == 1
MaxCsvRows == 2

\* ------------------------------------------------------------------------
\* JavaScript values
\* ------------------------------------------------------------------------
JsNull == [null |-> TRUE]
Num(n) == [num |-> n]
Str(s) == [str |-> s]
Arr(s) == [arr |-> s]
Bool(b) == [bool |-> b]

IsNull(x) == x = JsNull

\* ------------------------------------------------------------------------
\* Text helpers
\* ------------------------------------------------------------------------
Digits == {"0", "1", "2", "3", "4", "5", "6", "7", "8", "9"}
Space == {" ", "\n"}

DigitVal(c) ==
  CASE c = "0" -> 0 [] c = "1" -> 1 [] c = "2" -> 2 [] c = "3" -> 3
    [] c = "4" -> 4 [] c = "5" -> 5 [] c = "6" -> 6 [] c = "7" -> 7
    [] c = "8" -> 8 [] c = "9" -> 9

Min(a, b) == IF a < b THEN a ELSE b

\* Index just past the longest run of characters of class C starting at i.
RECURSIVE RunEnd(_, _, _)
RunEnd(s, i, C) ==
  IF i <= Len(s) /\ s[i] \in C THEN RunEnd(s, i + 1, C) ELSE i

\* Index just past the longest run of characters not of class C starting at i.
RECURSIVE RunEndNot(_, _, _)
RunEndNot(s, i, C) ==
  IF i <= Len(s) /\ s[i] \notin C THEN RunEndNot(s, i + 1, C) ELSE i

\* s[i .. j-1]
Slice(s, i, j) == SubSeq(s, i, j - 1)

\* Value of a run of digits.
RECURSIVE DigitsVal(_)
DigitsVal(s) ==
  IF s = << >> THEN 0 ELSE 10 * DigitsVal(SubSeq(s, 1, Len(s) - 1)) + DigitVal(s[Len(s)])

\* First two fraction digits of a run of digits, as hundredths.
FracHundredths(s) ==
  IF Len(s) = 0 THEN 0
  ELSE IF Len(s) = 1 THEN 10 * DigitVal(s[1])
  ELSE 10 * DigitVal(s[1]) + DigitVal(s[2])

\* End of a match of \d+(?:\.\d+)? starting at i (i itself when there is none).
DecimalEnd(s, i) ==
  LET e1 == RunEnd(s, i, Digits)
  IN IF e1 = i THEN i
     ELSE IF e1 <= Len(s) /\ s[e1] = "." /\ RunEnd(s, e1 + 1, Digits) > e1 + 1
          THEN RunEnd(s, e1 + 1, Digits)
          ELSE e1

\* Hundredths denoted by a text matching \d+(?:\.\d+)? or \d*\.\d* .
DecimalHundredths(s) ==
  LET e1 == RunEnd(s, 1, Digits)
      fr == IF e1 <= Len(s) /\ s[e1] = "."
            THEN Slice(s, e1 + 1, RunEnd(s, e1 + 1, Digits)) ELSE << >>
  IN 100 * DigitsVal(Slice(s, 1, e1)) + FracHundredths(fr)

\* JavaScript parseFloat on unsigned decimal text: leading white space is
\* skipped, the longest numeric prefix is read, NaN is JsNull.
parseFloat(s) ==
  LET b == RunEnd(s, 1, Space)
      e1 == RunEnd(s, b, Digits)
      hasDot == e1 <= Len(s) /\ s[e1] = "."
      e2 == IF hasDot THEN RunEnd(s, e1 + 1, Digits) ELSE e1
      noDigits == (e1 = b) /\ (~hasDot \/ e2 = e1 + 1)
  IN IF noDigits THEN JsNull ELSE Num(DecimalHundredths(Slice(s, b, e2)))

\* A search reports the leftmost position that matches: the least index of
\* the set H of matching positions, n + 1 when there is none.
SetMin(S) == CHOOSE i \in S : \A j \in S : i <= j
FirstIn(H, n) == IF H = {} THEN n + 1 ELSE SetMin(H)
SetMax(S) == CHOOSE i \in S : \A j \in S : j <= i

\* String.prototype.trim on a text.
RECURSIVE TrimLeft(_)
TrimLeft(s) == IF s # << >> /\ s[1] \in Space THEN TrimLeft(Tail(s)) ELSE s
RECURSIVE TrimRight(_)
TrimRight(s) ==
  IF s # << >> /\ s[Len(s)] \in Space THEN TrimRight(SubSeq(s, 1, Len(s) - 1)) ELSE s

\* text.replace(/\s+/g, " ").trim()
RECURSIVE CollapseSpace(_)
CollapseSpace(s) ==
  IF s = << >> THEN << >>
  ELSE IF s[1] \in Space
       THEN <<" ">> \o CollapseSpace(Slice(s, RunEnd(s, 1, Space), Len(s) + 1))
       ELSE <<s[1]>> \o CollapseSpace(Tail(s))

cleanText(text) == TrimRight(TrimLeft(CollapseSpace(text)))

RECURSIVE RemoveChars(_, _)
RemoveChars(s, C) ==
  IF s = << >> THEN << >>
  ELSE IF s[1] \in C THEN RemoveChars(Tail(s), C)
  ELSE <<s[1]>> \o RemoveChars(Tail(s), C)

\* parseNumber: null/empty text is null; thousands separators and percent
\* signs are stripped, the rest goes through parseFloat.
parseNumber(text) ==
  IF IsNull(text) \/ text.str = << >> THEN JsNull
  ELSE parseFloat(TrimRight(TrimLeft(RemoveChars(text.str, {",", "%"}))))

\* parsePercent: first "<number> %" of the text, else parseFloat of the text.
parsePercent(text) ==
  LET Sign(t, e) == e <= Len(t) /\ t[e] = "%"
      Hit(t, i, d) == d > i /\ Sign(t, RunEnd(t, d, Space))
      From(t, i0) == IF i0 <= Len(t)
                     THEN parseFloat(Slice(t, i0, DecimalEnd(t, i0)))
                     ELSE parseFloat(t)
      First(t) == From(t, FirstIn({i \in 1 .. Len(t) : Hit(t, i, DecimalEnd(t, i))},
                                  Len(t)))
  IN IF IsNull(text) \/ text.str = << >> THEN JsNull ELSE First(text.str)

\* First three fraction digits of a run of digits, as thousandths, and the
\* thousandths denoted by a text matching \d+(?:\.\d+)? .
FracThousandths(s) ==
  IF Len(s) = 0 THEN 0
  ELSE IF Len(s) = 1 THEN 100 * DigitVal(s[1])
  ELSE IF Len(s) = 2 THEN 100 * DigitVal(s[1]) + 10 * DigitVal(s[2])
  ELSE 100 * DigitVal(s[1]) + 10 * DigitVal(s[2]) + DigitVal(s[3])
DecimalThousandths(s) ==
  LET Frac(e1) == IF e1 <= Len(s) /\ s[e1] = "."
                  THEN Slice(s, e1 + 1, RunEnd(s, e1 + 1, Digits)) ELSE << >>
      At(e1) == 1000 * DigitsVal(Slice(s, 1, e1)) + FracThousandths(Frac(e1))
  IN At(RunEnd(s, 1, Digits))

\* parseFeet: feet, optional quote, optional inches; feet + inches / 12
\* rounded to two decimals by Math.round(feet * 100) / 100.  Computed in
\* 1/12000 (one thousandth of an inch) from the thousandths of both numbers.
\* The feet are text[i0 .. e1-1] and the inches text[c .. e2-1].
\* (parseFeetOnly: the feet alone, rounded, whatever inches follow.)
parseFeetOnly(text0) ==
  LET Value(text, i0, e1) == Num((DecimalThousandths(Slice(text, i0, e1)) + 5) \div 10)
      From(text, i0) == IF i0 > Len(text) THEN JsNull
                        ELSE Value(text, i0, DecimalEnd(text, i0))
      First(text) == From(text, FirstIn({i \in 1 .. Len(text) : text[i] \in Digits},
                                        Len(text)))
  IN IF IsNull(text0) \/ text0.str = << >> THEN JsNull ELSE First(text0.str)
parseFeet(text0) ==
  LET Value(text, i0, e1, c, e2) ==
        Num((12 * DecimalThousandths(Slice(text, i0, e1))
             + (IF e2 > c THEN DecimalThousandths(Slice(text, c, e2)) ELSE 0) + 60) \div 120)
      Inches(text, i0, e1, c) == Value(text, i0, e1, c, DecimalEnd(text, c))
      Quote(text, i0, e1, a) ==
        Inches(text, i0, e1,
               RunEnd(text, IF a <= Len(text) /\ text[a] = "'" THEN a + 1 ELSE a, Space))
      Feet(text, i0, e1) == Quote(text, i0, e1, RunEnd(text, e1, Space))
      From(text, i0) == IF i0 > Len(text) THEN JsNull
                        ELSE Feet(text, i0, DecimalEnd(text, i0))
      First(text) == From(text, FirstIn({i \in 1 .. Len(text) : text[i] \in Digits},
                                        Len(text)))
  IN IF IsNull(text0) \/ text0.str = << >> THEN JsNull ELSE First(text0.str)

\* ------------------------------------------------------------------------
\* Documents as sequences of chunks
\* ------------------------------------------------------------------------
\* Literal text of each kind of chunk (v is the variable text):
\*   Application             Application: <v>
\*   DateSubmitted           Date Submitted: <v>
\*   Address                 Address: <v>
\*   BuildingClassification  Building Classification:
\*   OccHeader               Occ Class  Const Type  Square Feet  Occ Load  Use Description
\*   ClassRow                R-3    VB    <v>    8    LIVING SPACE.
\*   Sprinkler               Sprinkler
\*   Comment                 Comment:
\*   RequiredCorrections     Required Corrections:
\*   Dept                    <v>\nReviewer: J Doe\nEmail: jd@fw.gov\nPhone: 8175550100
\*   Item                    <v>                       (such as "1. fix the plan")
\*   ApprovalTable           Approval Table:
\*   TaskHeader              Task Name  Task Status  Completed Date  Task Rev Name
\*   TaskRow                 Zoning Review  Approved<v>
\*   GeneralComments         General Comments
\*   ZoningPlansExam         Zoning Plans Exam
\*   EndZoning               end ZONING
\*   PlanningDept            Planning Development Department
\*   InformationBlock        INFORMATION BLOCK
\*   PlanReviewDate          Plan Review Performed On: <v>
\*   ReviewedBy              By: <v>
\*   Tenant                  Name of Tenant: <v>
\*   MetroCode               METRO CODE ANALYSIS
\*   NorthTexas              NORTH TEXAS INSPECTION SERVICES
\*   MetroCodeCom            metrocode.com
\*   NtisprosCom             ntispros.com
\*   BuildingHeading         BUILDING
\*   ElectricalHeading       ELECTRICAL
\*   LotCoverage             Lot coverage: <v>% maximum
\*   DrivewayCoverage        driveway coverage: <v>% maximum
\*   Height                  Height: <v>' maximum
\*   LotWidth                Lot Width: <v>' minimum at building line
\*   Front                   Front: <v>' minimum
\*   Sides                   Sides: <v>' minimum
\*   Rear                    Rear: <v>' minimum
\*   ParenProvided           (Provided<v>)
\*   Provided                Provided<v>
\*   ColonValue              :<v>
\*   Left                    Left<v>                   (such as "Left: 10' / Right 9'")
\*   Text                    <v>                       (letters and blanks only)
\*   ZoningDistrict          Zoning district: <v>
\*   OfficialPlat            Official Plat: (<v>)
\*   PlatNumber              FP-<v>
\*   SlabSF                  Slab SF: <v>
\*   LotArea                 Lot Area: <v>
\*   Bedrooms                # Bedrooms: <v>
\*   SpacesRequired          Parking spaces required <v>
\*   SpacesProvided          Parking spaces provided <v>
\*   UFC                     UFC<v>
\* The <v> of a label chunk (LotCoverage .. Rear, ClassRow) is a run of digits.
Chunk(kind, text) == [k |-> kind, v |-> text]
Fixed(kind) == Chunk(kind, << >>)

\* Number of characters of the literal text of a kind.
LitLen(kind) ==
  CASE kind = "Application" -> 13 [] kind = "DateSubmitted" -> 16
    [] kind = "Address" -> 9 [] kind = "BuildingClassification" -> 24
    [] kind = "OccHeader" -> 61 [] kind = "ClassRow" -> 35
    [] kind = "Sprinkler" -> 9 [] kind = "Comment" -> 8
    [] kind = "RequiredCorrections" -> 21 [] kind = "Dept" -> 51
    [] kind = "Item" -> 0 [] kind = "ApprovalTable" -> 15
    [] kind = "TaskHeader" -> 53 [] kind = "TaskRow" -> 23
    [] kind = "GeneralComments" -> 16 [] kind = "ZoningPlansExam" -> 17
    [] kind = "EndZoning" -> 10 [] kind = "PlanningDept" -> 31
    [] kind = "InformationBlock" -> 17 [] kind = "ReviewedBy" -> 4
    [] kind = "BuildingHeading" -> 8 [] kind = "ElectricalHeading" -> 10
    [] kind = "LotCoverage" -> 23 [] kind = "DrivewayCoverage" -> 28
    [] kind = "Height" -> 17 [] kind = "LotWidth" -> 37
    [] kind = "Front" -> 16 [] kind = "Sides" -> 16 [] kind = "Rear" -> 15
    [] kind = "ParenProvided" -> 10 [] kind = "Provided" -> 8
    [] kind = "ColonValue" -> 1 [] kind = "Left" -> 4 [] kind = "Text" -> 0
    [] kind = "ZoningDistrict" -> 17 [] kind = "OfficialPlat" -> 17
    [] kind = "PlatNumber" -> 3 [] kind = "SlabSF" -> 9 [] kind = "LotArea" -> 10
    [] kind = "Bedrooms" -> 12 [] kind = "SpacesRequired" -> 24
    [] kind = "PlanReviewDate" -> 26 [] kind = "Tenant" -> 16
    [] kind = "MetroCode" -> 19 [] kind = "NorthTexas" -> 31
    [] kind = "MetroCodeCom" -> 13 [] kind = "NtisprosCom" -> 12
    [] kind = "SpacesProvided" -> 24 [] kind = "UFC" -> 3

ChunkLen(c) == LitLen(c.k) + Len(c.v)

\* Characters between the end of chunk i and the start of chunk j (i < j).
RECURSIVE GapLen(_, _, _)
GapLen(content, i, j) ==
  IF j = i + 1 THEN 1 ELSE 1 + ChunkLen(content[i + 1]) + GapLen(content, i + 1, j)

\* First index >= from of a chunk whose kind is in K (Len + 1 when none).
FirstKind(content, from, K) ==
  FirstIn({i \in from .. Len(content) : content[i].k \in K}, Len(content))

\* A located span: the anchor's index and the chunks from .. to of the
\* captured group (from > to when the group is empty).
Span(a, f, t) == [anchor |-> a, from |-> f, to |-> t]
SpanText(content, sp) == SubSeq(content, sp.from, sp.to)

\* ------------------------------------------------------------------------
\* Section spans, one regular expression per parser
\* ------------------------------------------------------------------------
\* /Building Classification:[\s\S]*?Occ Class\s+...Use Description([\s\S]*?)
\*  (?:Sprinkler|Comment:|Required Corrections)/i
BuildingClassificationSpan(content) ==
  LET n == Len(content)
      a == FirstKind(content, 1, {"BuildingClassification"})
      h == FirstKind(content, a + 1, {"OccHeader"})
      t == FirstKind(content, h + 1, {"Sprinkler", "Comment", "RequiredCorrections"})
  IN IF a <= n /\ h <= n /\ t <= n THEN Span(a, h + 1, t - 1) ELSE JsNull

\* /Required Corrections:([\s\S]*?)(?:Approval Table:|General Comments)/i
CorrectionsSpan(content) ==
  LET n == Len(content)
      a == FirstKind(content, 1, {"RequiredCorrections"})
      t == FirstKind(content, a + 1, {"ApprovalTable", "GeneralComments"})
  IN IF a <= n /\ t <= n THEN Span(a, a + 1, t - 1) ELSE JsNull

\* /Approval Table:[\s\S]*?Task Name\s+Task Status\s+Completed Date\s+
\*  Task Rev Name([\s\S]*?)(?:General Comments|$)/i
ApprovalTableSpan(content) ==
  LET n == Len(content)
      a == FirstKind(content, 1, {"ApprovalTable"})
      h == FirstKind(content, a + 1, {"TaskHeader"})
      t == FirstKind(content, h + 1, {"GeneralComments"})
  IN IF a <= n /\ h <= n THEN Span(a, h + 1, t - 1) ELSE JsNull

\* /Zoning Plans Exam([\s\S]*?)(?:INFORMATION BLOCK|end ZONING|Planning
\*  Development Department[\s\S]{0,100}Planning Development Department|$)/i
ZoningSpanWhole(content) ==
  LET n == Len(content)
      a == FirstKind(content, 1, {"ZoningPlansExam"})
  IN IF a <= n THEN Span(a, a + 1, n) ELSE Span(0, 1, n)
ZoningSpan(content) ==
  LET n == Len(content)
      a == FirstKind(content, 1, {"ZoningPlansExam"})
      Ends(i) == \/ content[i].k \in {"InformationBlock", "EndZoning"}
                 \/ /\ content[i].k = "PlanningDept"
                    /\ \E j \in (i + 1) .. n : /\ content[j].k = "PlanningDept"
                                              /\ GapLen(content, i, j) <= 100
      t == FirstIn({i \in (a + 1) .. n : Ends(i)}, n)
  IN IF a <= n THEN Span(a, a + 1, t - 1) ELSE JsNull

\* /INFORMATION BLOCK([\s\S]*?)(?:BUILDING|ELECTRICAL|$)/i ; "building" is
\* also part of "Building Classification:" and of "at building line".
ThirdPartySpan(content) ==
  LET n == Len(content)
      a == FirstKind(content, 1, {"InformationBlock"})
      t == FirstKind(content, a + 1,
                     {"BuildingHeading", "ElectricalHeading",
                      "BuildingClassification", "LotWidth"})
  IN IF a <= n THEN Span(a, a + 1, t - 1) ELSE JsNull

\* ------------------------------------------------------------------------
\* Captures inside one chunk
\* ------------------------------------------------------------------------
PctChars == Digits \cup {"."}
WidthChars == Digits \cup {"'", "."}
FeetChars == Digits \cup {"'", "\"", ".", " ", "\n"}
FeetHalfChars == FeetChars \cup {"half"}
ColonBlank == {":", " ", "\n"}
ColonBlankQuote == {":", " ", "\n", "\""}
ColonBlankUnder == {":", " ", "\n", "_"}

\* P*(C+) at the start of t: the greedy prefix run gives characters back
\* only when the capture would otherwise be empty.  JsNull when no match.
CapPrefix(t, P, C) ==
  LET a == RunEnd(t, 1, P)
      e == RunEnd(t, a, C)
  IN IF e > a THEN Str(Slice(t, a, e))
     ELSE IF a > 1 /\ t[a - 1] \in C THEN Str(<<t[a - 1]>>)
     ELSE JsNull

\* P+(C+) at the start of t: as CapPrefix, but the prefix keeps a character.
CapPrefix1(t, P, C) ==
  LET a == RunEnd(t, 1, P)
      e == RunEnd(t, a, C)
  IN IF a > 1 /\ e > a THEN Str(Slice(t, a, e))
     ELSE IF a > 2 /\ t[a - 1] \in C THEN Str(<<t[a - 1]>>)
     ELSE JsNull

\* P*(C+) matching the whole of t.
CapFull(t, P, C) ==
  LET n == Len(t)
      a == RunEnd(t, 1, P)
  IN IF a <= n
     THEN IF RunEnd(t, a, C) = n + 1 THEN Str(Slice(t, a, n + 1)) ELSE JsNull
     ELSE IF n >= 1 /\ t[n] \in C THEN Str(<<t[n]>>)
     ELSE JsNull

\* \s*([\d.]+)%?  matching the whole of t ("(Provided 19%)").
PctParen(t) ==
  LET n == Len(t)
      a == RunEnd(t, 1, Space)
      e == RunEnd(t, a, PctChars)
  IN IF e > a /\ (e = n + 1 \/ (e = n /\ t[e] = "%"))
     THEN Str(Slice(t, a, e)) ELSE JsNull

\* P*([\d.]+)% at the start of t.
PctThenSign(t, P) ==
  LET a == RunEnd(t, 1, P)
      e == RunEnd(t, a, PctChars)
  IN IF e > a /\ e <= Len(t) /\ t[e] = "%" THEN Str(Slice(t, a, e)) ELSE JsNull

\* Index of the first character of t in class C (Len + 1 when none).
FirstChar(t, C) == FirstIn({i \in 1 .. Len(t) : t[i] \in C}, Len(t))

\* Kinds whose literal text has a colon, and the text after the first colon
\* of a chunk up to the first letter (JsNull when the chunk has no colon).
LabelKinds == {"LotCoverage", "DrivewayCoverage", "Height", "LotWidth",
               "Front", "Sides", "Rear"}
ColonValueKinds == {"Application", "DateSubmitted", "Address", "ReviewedBy",
                    "PlanReviewDate", "Tenant",
                    "ZoningDistrict", "SlabSF", "LotArea", "Bedrooms"}
ColonEndKinds == {"BuildingClassification", "Comment", "RequiredCorrections",
                  "ApprovalTable"}
AfterColon(c) ==
  IF c.k \in {"LotCoverage", "DrivewayCoverage"} THEN Str(<<" ">> \o c.v \o <<"%", " ", "m">>)
  ELSE IF c.k \in LabelKinds THEN Str(<<" ">> \o c.v \o <<"'", " ", "m">>)
  ELSE IF c.k \in ColonValueKinds THEN Str(<<" ">> \o c.v)
  ELSE IF c.k = "OfficialPlat" THEN Str(<<" ", "(">> \o c.v \o <<")">>)
  ELSE IF c.k = "Dept" /\ FirstChar(c.v, {":"}) > Len(c.v) THEN Str(<<" ", "J">>)
  ELSE IF c.k \in ColonEndKinds THEN Str(<< >>)
  ELSE IF c.k = "ColonValue" THEN Str(c.v)
  ELSE LET i == FirstChar(c.v, {":"})
       IN IF i > Len(c.v) THEN JsNull
          ELSE IF c.k = "ParenProvided" THEN Str(Slice(c.v, i + 1, Len(c.v) + 1) \o <<")">>)
          ELSE Str(Slice(c.v, i + 1, Len(c.v) + 1))

\* What follows chunk i in the text: the newline and then the next chunk.
\* A ColonValue chunk, a numbered item and an empty line are spelled out and
\* continued; a Provided chunk is "P" and its text; any other chunk starts
\* with a character ("x") that is neither a blank, a colon, a quote nor a
\* digit.
RECURSIVE Following(_, _)
Following(zc, i) ==
  IF i >= Len(zc) THEN << >>
  ELSE IF zc[i + 1].k = "ColonValue"
       THEN <<"\n", ":">> \o zc[i + 1].v \o Following(zc, i + 1)
  ELSE IF zc[i + 1].k = "Item" \/ (zc[i + 1].k = "Text" /\ zc[i + 1].v = << >>)
       THEN <<"\n">> \o zc[i + 1].v \o Following(zc, i + 1)
  ELSE IF zc[i + 1].k = "Provided"
       THEN <<"\n", "P">> \o zc[i + 1].v \o Following(zc, i + 1)
  ELSE <<"\n", "x">>

\* Text after the first colon of chunk i, continued into what follows.
ColonTail(zc, i) == AfterColon(zc[i]).str \o Following(zc, i)

FirstColonChunk(zc, from) ==
  FirstIn({i \in from .. Len(zc) : ~IsNull(AfterColon(zc[i]))}, Len(zc))

\* Kinds whose text has a "(" .
FirstParenChunk(zc, from) ==
  FirstIn({i \in from .. Len(zc) : \/ zc[i].k \in {"ParenProvided", "OfficialPlat"}
                                   \/ FirstChar(zc[i].v, {"("}) <= Len(zc[i].v)},
          Len(zc))

\* Kinds whose text has an "l" or "L" ([^L] under the i flag excludes both).
LKinds == {"Application", "BuildingClassification", "PlanReviewDate", "MetroCode", "OccHeader", "ClassRow",
           "Sprinkler", "Dept", "ApprovalTable", "TaskHeader", "GeneralComments",
           "ZoningPlansExam", "PlanningDept", "InformationBlock",
           "BuildingHeading", "ElectricalHeading", "LotCoverage", "LotWidth",
           "Left", "OfficialPlat", "SlabSF", "LotArea"}
FirstLChunk(zc, from) ==
  FirstIn({i \in from .. Len(zc) : \/ zc[i].k \in LKinds
                                   \/ FirstChar(zc[i].v, {"l", "L"}) <= Len(zc[i].v)},
          Len(zc))

\* A regular expression's groups, or JsNull when it does not match.
Groups2(g1, g2) == [g1 |-> g1, g2 |-> g2]
Groups3(g1, g2, g3) == [g1 |-> g1, g2 |-> g2, g3 |-> g3]

\* The captures a pattern takes at the chunks of a text are a sequence caps
\* (JsNull where it takes none).  Those of the chunks whose kind is in K:
OfKind(zc, K, caps) ==
  [i \in 1 .. Len(zc) |-> IF zc[i].k \in K THEN caps[i] ELSE JsNull]

\* The leftmost chunk at or after from where a capture is taken.
FirstHit(caps, from) ==
  FirstIn({i \in from .. Len(caps) : ~IsNull(caps[i])}, Len(caps))

\* label ... [\s\S]*? ... capture : the first label chunk, then the first
\* later chunk where the capture is taken.
LabelThenParen(zc, labels, caps) ==
  LET n == Len(zc)
      i == FirstKind(zc, 1, labels)
      j == FirstHit(caps, i + 1)
  IN IF i <= n /\ j <= n THEN Groups2(Str(zc[i].v), caps[j]) ELSE JsNull

\* The leftmost chunk i of the label kind at which the capture is taken.
LabelAt(zc, label, caps) ==
  LET i == FirstHit(OfKind(zc, {label}, caps), 1)
  IN IF i <= Len(zc) THEN Groups2(Str(zc[i].v), caps[i]) ELSE JsNull

\* ------------------------------------------------------------------------
\* parseZoningReview: the pattern variants of each field
\* ------------------------------------------------------------------------
\* /Lot coverage:\s*(\d+)%?\s*maximum[\s\S]*?\(Provided\s*([\d.]+)%?\)/i
lotCovMatch1(zc) ==
  LabelThenParen(zc, {"LotCoverage"},
                 OfKind(zc, {"ParenProvided"},
                        [j \in 1 .. Len(zc) |-> PctParen(zc[j].v)]))

\* /Lot coverage:\s*(\d+)%?\s*maximum[:\s"]*([\d.]+)%/i
lotCovMatch2(zc) ==
  LabelAt(zc, "LotCoverage",
          [i \in 1 .. Len(zc) |-> PctThenSign(Following(zc, i), ColonBlankQuote)])

\* /coverage[:\s]+(\d+)%?\s*maximum[\s\S]*?(?:Provided|at)\s*([\d.]+)%/i
lotCovMatch3(zc) ==
  LabelThenParen(zc, {"LotCoverage", "DrivewayCoverage"},
                 OfKind(zc, {"ParenProvided", "Provided", "SpacesProvided"},
                        [j \in 1 .. Len(zc) |-> PctThenSign(zc[j].v, Space)]))

\* /Height:\s*(\d+)['']?\s*maximum[\s\S]*?\(Provided[:\s]*([\d'"\s.]+)\)/i
heightMatch1(zc) ==
  LabelThenParen(zc, {"Height"},
                 OfKind(zc, {"ParenProvided"},
                        [j \in 1 .. Len(zc) |-> CapFull(zc[j].v, ColonBlank, FeetChars)]))

\* [:\s"]+(?:Provided\s*)?([\d'"\s.]+) at the start of f, the text after
\* "maximum".
HeightAfter(f) ==
  LET a == RunEnd(f, 1, ColonBlankQuote)
      withProvided == IF a > 1 /\ a <= Len(f) /\ f[a] = "P"
                      THEN CapPrefix(Slice(f, a + 1, Len(f) + 1), Space, FeetChars)
                      ELSE JsNull
  IN IF ~IsNull(withProvided) THEN withProvided
     ELSE CapPrefix1(f, ColonBlankQuote, FeetChars)

\* /Height:\s*(\d+)['']?\s*maximum[:\s"]+(?:Provided\s*)?([\d'"\s.]+)/i
heightMatch2(zc) ==
  LabelAt(zc, "Height", [i \in 1 .. Len(zc) |-> HeightAfter(Following(zc, i))])

\* /Lot Width:\s*(\d+)['']?\s*minimum[\s\S]*?\(Provided\s*([\d'.]+)\)/i
lotWidthMatch1(zc) ==
  LabelThenParen(zc, {"LotWidth"},
                 OfKind(zc, {"ParenProvided"},
                        [j \in 1 .. Len(zc) |-> CapFull(zc[j].v, Space, WidthChars)]))

\* label [^:]* ":" P* (C+) : the capture after the first colon that follows
\* chunk i.
AfterNextColon(zc, c, P, C) ==
  IF c <= Len(zc) THEN CapPrefix(ColonTail(zc, c), P, C) ELSE JsNull

\* /Lot Width:\s*(\d+)['']?\s*minimum[^:]*:[:\s_]*([\d'.]+)/i
lotWidthMatch2(zc) ==
  LabelAt(zc, "LotWidth",
          [i \in 1 .. Len(zc) |->
             AfterNextColon(zc, FirstColonChunk(zc, i + 1), ColonBlankUnder, WidthChars)])

\* /driveway coverage:\s*(\d+)%?\s*maximum[\s\S]*?\(Provided\s*([\d.]+)%?\)/i
drivewayMatch1(zc) ==
  LabelThenParen(zc, {"DrivewayCoverage"},
                 OfKind(zc, {"ParenProvided"},
                        [j \in 1 .. Len(zc) |-> PctParen(zc[j].v)]))

\* /driveway coverage:\s*(\d+)%?\s*maximum[:\s"]*([\d.]+)%?/i
drivewayMatch2(zc) ==
  LabelAt(zc, "DrivewayCoverage",
          [i \in 1 .. Len(zc) |-> CapPrefix(Following(zc, i), ColonBlankQuote, PctChars)])

\* label [^(]* "(Provided" [:\s_]* ([\d'"\s.(half)]+) ")" : the first "(" after
\* the label has to open the Provided group.
ParenAt(zc, p) ==
  IF p <= Len(zc) /\ zc[p].k = "ParenProvided"
  THEN CapFull(zc[p].v, ColonBlankUnder, FeetHalfChars)
  ELSE JsNull
ParenAfter(zc, i) == ParenAt(zc, FirstParenChunk(zc, i + 1))

\* /Front:\s*(\d+)['']?\s*(?:minimum|platted)[^(]*\(Provided[:\s_]*([\d'"\s.(half)]+)\)/i
frontMatch1(zc) ==
  LabelAt(zc, "Front", [i \in 1 .. Len(zc) |-> ParenAfter(zc, i)])

\* /Front:\s*(\d+)['']?\s*(?:minimum|platted)[^:]*:[:\s_]*([\d'"\s.(half)]+)/i
frontMatch2(zc) ==
  LabelAt(zc, "Front",
          [i \in 1 .. Len(zc) |->
             AfterNextColon(zc, FirstColonChunk(zc, i + 1), ColonBlankUnder, FeetHalfChars)])

\* \s*([\d'"\s.(half)]+)\s*[&,]\s*([\d'"\s.(half)]+) matching the whole of t.
TwoFeet(t) ==
  LET n == Len(t)
      e1 == RunEnd(t, 1, FeetHalfChars)
      g3 == IF e1 <= n THEN CapFull(Slice(t, e1 + 1, n + 1), Space, FeetHalfChars)
            ELSE JsNull
      a1 == IF RunEnd(t, 1, Space) < e1 THEN RunEnd(t, 1, Space) ELSE e1 - 1
  IN IF e1 > 1 /\ e1 <= n /\ t[e1] \in {"&", ","} /\ ~IsNull(g3)
     THEN [g2 |-> Str(Slice(t, a1, e1)), g3 |-> g3]
     ELSE JsNull

\* The leftmost Sides chunk at which the two captures (two) are taken.
SidesAt(zc, two) ==
  LET i == FirstHit(OfKind(zc, {"Sides"}, two), 1)
  IN IF i <= Len(zc) THEN Groups3(Str(zc[i].v), two[i].g2, two[i].g3) ELSE JsNull

\* The two captures of the Provided group that the first "(" opens.
TwoAt(zc, p) ==
  IF p <= Len(zc) /\ zc[p].k = "ParenProvided" THEN TwoFeet(zc[p].v) ELSE JsNull

\* /Sides?:\s*(\d+)['']?\s*minimum[^(]*\(Provided\s*([\d'"\s.(half)]+)\s*[&,]\s*([\d'"\s.(half)]+)\)/i
sidesMatch1(zc) ==
  SidesAt(zc, [i \in 1 .. Len(zc) |-> TwoAt(zc, FirstParenChunk(zc, i + 1))])

\* Right[:\s]*([\d'"\s.(half)]+) at position r of t.
RightCap(t, r) ==
  IF /\ r + 4 <= Len(t)
     /\ t[r] \in {"r", "R"}
     /\ t[r + 1] \in {"i", "I"} /\ t[r + 2] \in {"g", "G"}
     /\ t[r + 3] \in {"h", "H"} /\ t[r + 4] \in {"t", "T"}
  THEN CapPrefix(Slice(t, r + 5, Len(t) + 1), ColonBlank, FeetHalfChars)
  ELSE JsNull

\* [:\s]*([\d'"\s.(half)]+)[^R]*Right[:\s]*([\d'"\s.(half)]+) at the start of t, the
\* text after "Left" (the rest of its line and what follows it).
LeftRight(t) ==
  LET g2 == CapPrefix(t, ColonBlank, FeetHalfChars)
      e == RunEnd(t, RunEnd(t, 1, ColonBlank), FeetHalfChars)
      g3 == RightCap(t, FirstIn({i \in e .. Len(t) : t[i] \in {"r", "R"}}, Len(t)))
  IN IF ~IsNull(g2) /\ ~IsNull(g3) THEN [g2 |-> g2, g3 |-> g3] ELSE JsNull

\* The two captures after the "Left" that the first "l" begins.
LeftAt(zc, l) ==
  IF l <= Len(zc) /\ zc[l].k = "Left"
  THEN LeftRight(zc[l].v \o Following(zc, l)) ELSE JsNull

\* /Sides?:\s*(\d+)['']?\s*minimum[^L]*Left[:\s]*([\d'"\s.(half)]+)[^R]*Right[:\s]*([\d'"\s.(half)]+)/i
sidesMatch2(zc) ==
  SidesAt(zc, [i \in 1 .. Len(zc) |-> LeftAt(zc, FirstLChunk(zc, i + 1))])

\* /Rear:\s*(\d+)['']?\s*minimum[^(]*\(Provided[:\s_]*([\d'"\s.(half)]+)\)/i
rearMatch1(zc) ==
  LabelAt(zc, "Rear", [i \in 1 .. Len(zc) |-> ParenAfter(zc, i)])

\* /Rear:\s*(\d+)['']?\s*minimum[:\s_]*([\d'"\s.(half)]+)/i
rearMatch2(zc) ==
  LabelAt(zc, "Rear",
          [i \in 1 .. Len(zc) |-> CapPrefix(Following(zc, i), ColonBlankUnder, FeetHalfChars)])

\* The capture taken from the leftmost chunk of the kind where one is taken.
FieldAt(zc, kind, caps) ==
  LET i == FirstHit(OfKind(zc, {kind}, caps), 1)
  IN IF i <= Len(zc) THEN caps[i] ELSE JsNull

\* (\d+-\d+) at the start of t.
DashPair(t) ==
  LET e1 == RunEnd(t, 1, Digits)
      e2 == RunEnd(t, e1 + 1, Digits)
  IN IF e1 > 1 /\ e1 <= Len(t) /\ t[e1] = "-" /\ e2 > e1 + 1
     THEN Str(Slice(t, 1, e2)) ELSE JsNull

\* /Zoning district:\s*[""]?([A-Z0-9\s-]+?)(?:[""]|\s+Type of|\n)/i : the
\* shortest run of district characters that a quote, blanks and "Type of",
\* or the end of a line which has a newline, ends.
Letters ==
  {"A", "B", "C", "D", "E", "F", "G", "H", "I", "J", "K", "L", "M", "N", "O",
   "P", "Q", "R", "S", "T", "U", "V", "W", "X", "Y", "Z",
   "a", "b", "c", "d", "e", "f", "g", "h", "i", "j", "k", "l", "m", "n", "o",
   "p", "q", "r", "s", "t", "u", "v", "w", "x", "y", "z"}
DistrictChars == Digits \cup {"-", " "} \cup Letters
TypeOfAt(v, e) ==
  LET s == RunEnd(v, e, Space)
  IN /\ s > e /\ s + 6 <= Len(v)
     /\ v[s] \in {"t", "T"} /\ v[s + 1] \in {"y", "Y"} /\ v[s + 2] \in {"p", "P"}
     /\ v[s + 3] \in {"e", "E"} /\ v[s + 4] = " "
     /\ v[s + 5] \in {"o", "O"} /\ v[s + 6] \in {"f", "F"}
\* The capture from position b of the chunk's text v; newline says that a
\* line follows the chunk.
DistrictFrom(v, b, newline) ==
  LET n == Len(v)
      e == FirstIn({k \in (b + 1) .. (n + 1) : \/ k <= n /\ v[k] = "\""
                                               \/ k <= n /\ TypeOfAt(v, k)
                                               \/ k = n + 1 /\ newline}, n + 1)
  IN IF e <= n + 1 /\ RunEnd(v, b, DistrictChars) >= e
     THEN Str(Slice(v, b, e)) ELSE JsNull
DistrictCap(v, a, newline) ==
  DistrictFrom(v, IF a <= Len(v) /\ v[a] = "\"" THEN a + 1 ELSE a, newline)
zoningDistrictMatch(zc) ==
  FieldAt(zc, "ZoningDistrict",
          [i \in 1 .. Len(zc) |->
             DistrictCap(zc[i].v, RunEnd(zc[i].v, 1, Space), i < Len(zc))])

\* /Official Plat:.*?\(([^)]+)\)/i
platNameMatch(zc) ==
  FieldAt(zc, "OfficialPlat",
          [i \in 1 .. Len(zc) |->
             IF zc[i].v # << >> /\ FirstChar(zc[i].v, {")", "\n"}) > Len(zc[i].v)
             THEN Str(zc[i].v) ELSE JsNull])

\* /(FP-\d+-\d+)/i
WithFP(m) == IF IsNull(m) THEN JsNull ELSE Str(<<"F", "P", "-">> \o m.str)
platNumberMatch(zc) ==
  FieldAt(zc, "PlatNumber", [i \in 1 .. Len(zc) |-> WithFP(DashPair(zc[i].v))])

\* /Slab SF:\s*([\d,]+)/i
slabMatch(zc) ==
  FieldAt(zc, "SlabSF",
          [i \in 1 .. Len(zc) |-> CapPrefix(zc[i].v, Space, Digits \cup {","})])

\* /Lot Area(?:\s*SF)?:\s*([\d,.]+)/i
lotAreaMatch(zc) ==
  FieldAt(zc, "LotArea",
          [i \in 1 .. Len(zc) |-> CapPrefix(zc[i].v, Space, Digits \cup {",", "."})])

\* /#\s*[Bb]edrooms?:\s*[_]?(\d+)/i
BedroomsCap(v, a) ==
  CapPrefix(Slice(v, IF a <= Len(v) /\ v[a] = "_" THEN a + 1 ELSE a, Len(v) + 1),
            {}, Digits)
bedroomsMatch(zc) ==
  FieldAt(zc, "Bedrooms",
          [i \in 1 .. Len(zc) |-> BedroomsCap(zc[i].v, RunEnd(zc[i].v, 1, Space))])

\* /(?:parking\s+)?spaces\s+required[:\s_]*(\d+)/i
parkingReqMatch(zc) ==
  FieldAt(zc, "SpacesRequired",
          [i \in 1 .. Len(zc) |-> CapPrefix(zc[i].v, ColonBlankUnder, Digits)])

\* /(?:parking\s+)?spaces\s+provided[:\s_]*(\d+)/i
parkingProvMatch(zc) ==
  FieldAt(zc, "SpacesProvided",
          [i \in 1 .. Len(zc) |-> CapPrefix(zc[i].v, ColonBlankUnder, Digits)])

\* /UFC[#\s-]*(\d+-\d+)/i
ufcMatch(zc) ==
  FieldAt(zc, "UFC",
          [i \in 1 .. Len(zc) |->
             DashPair(Slice(zc[i].v, RunEnd(zc[i].v, 1, {"#", " ", "\n", "-"}),
                            Len(zc[i].v) + 1))])

\* if (m1) {..} else if (m2) {..} else if (m3) {..} : the groups of the
\* first variant that matched, JsNull when none did.
CascadeLast(matches) ==
  LET H == {k \in 1 .. Len(matches) : ~IsNull(matches[k])}
  IN IF H = {} THEN JsNull ELSE matches[CHOOSE k \in H : \A j \in H : j <= k]
Cascade(matches) ==
  LET H == {k \in 1 .. Len(matches) : ~IsNull(matches[k])}
  IN IF H = {} THEN JsNull ELSE matches[SetMin(H)]

\* cleanText(m?.[1] || "") || null
CleanOrNull(m) ==
  IF IsNull(m) \/ cleanText(m.str) = << >> THEN JsNull ELSE Str(cleanText(m.str))

\* (max !== null || prov !== null) ? { maximum: max, provided: prov } : null
DimensionalValueAlways(max, prov) == [maximum |-> max, provided |-> prov]
DimensionalValueProvided(max, prov) ==
  IF ~IsNull(prov) THEN [maximum |-> max, provided |-> prov] ELSE JsNull
DimensionalValue(max, prov) ==
  IF ~IsNull(max) \/ ~IsNull(prov) THEN [maximum |-> max, provided |-> prov] ELSE JsNull

\* The text captured between "Zoning Plans Exam" and its terminator; when a
\* terminator follows, the text ends with the newline before it.
ZoningContent(content) ==
  LET Text(sp) == SpanText(content, sp) \o
                  (IF sp.to < Len(content) THEN <<Chunk("Text", << >>)>> ELSE << >>)
  IN Text(ZoningSpan(content))

\* Group g of a match, which the field's parser is then applied to; no
\* match leaves the field null, as the parser applied to null does.
Group(m, g) == IF IsNull(m) THEN JsNull ELSE m[g]

parseZoningReview(content) ==
  LET Percents(m) == DimensionalValue(parsePercent(Group(m, "g1")),
                                      parsePercent(Group(m, "g2")))
      Feet(m, g) == DimensionalValue(parseFeet(Group(m, "g1")),
                                     parseFeet(Group(m, g)))
      Setbacks(front, sides, rear) ==
        [ front |-> Feet(front, "g2"),
          side_left |-> Feet(sides, "g2"),
          side_right |-> Feet(sides, "g3"),
          rear |-> Feet(rear, "g2") ]
      Review(zc) ==
        [ zoning_district |-> CleanOrNull(zoningDistrictMatch(zc)),
          plat_name |-> CleanOrNull(platNameMatch(zc)),
          plat_number |-> platNumberMatch(zc),
          slab_sf |-> parseNumber(slabMatch(zc)),
          lot_area_sf |-> parseNumber(lotAreaMatch(zc)),
          lot_coverage |->
            Percents(Cascade(<<lotCovMatch1(zc), lotCovMatch2(zc), lotCovMatch3(zc)>>)),
          height |-> Feet(Cascade(<<heightMatch1(zc), heightMatch2(zc)>>), "g2"),
          lot_width |-> Feet(Cascade(<<lotWidthMatch1(zc), lotWidthMatch2(zc)>>), "g2"),
          driveway_coverage |->
            Percents(Cascade(<<drivewayMatch1(zc), drivewayMatch2(zc)>>)),
          setbacks |-> Setbacks(Cascade(<<frontMatch1(zc), frontMatch2(zc)>>),
                                Cascade(<<sidesMatch1(zc), sidesMatch2(zc)>>),
                                Cascade(<<rearMatch1(zc), rearMatch2(zc)>>)),
          parking |->
            [ bedrooms |-> parseNumber(bedroomsMatch(zc)),
              required |-> parseNumber(parkingReqMatch(zc)),
              provided |-> parseNumber(parkingProvMatch(zc)) ],
          ufc_permit |-> ufcMatch(zc) ]
  IN IF IsNull(ZoningSpan(content)) THEN JsNull ELSE Review(ZoningContent(content))

\* ------------------------------------------------------------------------
\* Dates
\* ------------------------------------------------------------------------
\* (\d{1,2})\/(\d{1,2})\/(\d{lo,hi}) at position i of t: the groups and the
\* index after the match, or JsNull.  m2, d2 and y2 are the ends of the
\* month, the day and the year.
DateAt(t, i, lo, hi) ==
  LET UpTo(j, k) == Min(RunEnd(t, j, Digits), j + k)
      Groups(m2, d2, y2) ==
        IF /\ m2 > i /\ m2 <= Len(t) /\ t[m2] = "/"
           /\ d2 > m2 + 1 /\ d2 <= Len(t) /\ t[d2] = "/"
           /\ y2 - (d2 + 1) >= lo
        THEN [month |-> Slice(t, i, m2), day |-> Slice(t, m2 + 1, d2),
              year |-> Slice(t, d2 + 1, y2), end |-> y2]
        ELSE JsNull
      Year(m2, d2) == Groups(m2, d2, UpTo(d2 + 1, hi))
      Day(m2) == Year(m2, UpTo(m2 + 1, 2))
  IN Day(UpTo(i, 2))

\* s.padStart(2, "0") (padStartNone: s as it is)
padStartNone(s) == s
padStart2(s) == IF Len(s) < 2 THEN <<"0">> \o s ELSE s

\* parseDate: the first M/D/YYYY of the text as YYYY-MM-DD, else null.
\* parseDateAnyYear is the variant that takes a year of two to four digits.
parseDateAnyYear(text) ==
  LET Iso(m) == Str(m.year \o <<"-">> \o padStart2(m.month) \o <<"-">> \o padStart2(m.day))
      From(t, i0) == IF i0 > Len(t) THEN JsNull ELSE Iso(DateAt(t, i0, 2, 4))
      First(t) == From(t, FirstIn({i \in 1 .. Len(t) : ~IsNull(DateAt(t, i, 2, 4))}, Len(t)))
  IN IF IsNull(text) \/ text.str = << >> THEN JsNull ELSE First(text.str)

parseDate(text) ==
  LET Iso(m) == Str(m.year \o <<"-">> \o padStart2(m.month) \o <<"-">> \o padStart2(m.day))
      From(t, i0) == IF i0 > Len(t) THEN JsNull ELSE Iso(DateAt(t, i0, 4, 4))
      First(t) == From(t, FirstIn({i \in 1 .. Len(t) : ~IsNull(DateAt(t, i, 4, 4))}, Len(t)))
  IN IF IsNull(text) \/ text.str = << >> THEN JsNull ELSE First(text.str)

\* ------------------------------------------------------------------------
\* parseHeader (the fields a statement is made about)
\* ------------------------------------------------------------------------
\* /Application:\s*(PB\d+-\d+)/i
appMatch(content) ==
  LET Cap(v, a, m) ==
        IF a + 1 <= Len(v) /\ v[a] \in {"P", "p"} /\ v[a + 1] \in {"B", "b"} /\ ~IsNull(m)
        THEN Str(<<v[a], v[a + 1]>> \o m.str) ELSE JsNull
      At(v, a) == Cap(v, a, DashPair(Slice(v, a + 2, Len(v) + 1)))
  IN FieldAt(content, "Application",
             [i \in 1 .. Len(content) |-> At(content[i].v, RunEnd(content[i].v, 1, Space))])

\* \s*(\d{1,2}\/\d{1,2}\/\d{4}) at the start of v.
DateCap(v) ==
  LET Cap(a, m) == IF IsNull(m) THEN JsNull ELSE Str(Slice(v, a, m.end))
      At(a) == Cap(a, DateAt(v, a, 4, 4))
  IN At(RunEnd(v, 1, Space))

\* /Date Submitted:\s*(\d{1,2}\/\d{1,2}\/\d{4})/i
submittedMatch(content) ==
  FieldAt(content, "DateSubmitted", [i \in 1 .. Len(content) |-> DateCap(content[i].v)])

\* /Address:\s*(.+?)(?:\n|Parcel)/is : the rest of the line, which has to
\* end with a newline.
addressMatch(content) ==
  LET Cap(i, v, a) == IF i < Len(content) /\ a <= Len(v)
                      THEN Str(Slice(v, a, Len(v) + 1)) ELSE JsNull
  IN FieldAt(content, "Address",
             [i \in 1 .. Len(content) |-> Cap(i, content[i].v, RunEnd(content[i].v, 1, Space))])

\* m?.[1] || ""
OrEmpty(m) == IF IsNull(m) THEN Str(<< >>) ELSE m

parseHeader(content) ==
  [ application |->
      [ number |-> OrEmpty(appMatch(content)),
        date_submitted |-> parseDate(submittedMatch(content)) ],
    property |->
      [ address |-> Str(cleanText(OrEmpty(addressMatch(content)).str)) ] ]

\* ------------------------------------------------------------------------
\* parseBuildingClassification
\* ------------------------------------------------------------------------
\* A row chunk "R-3    VB    <v>    8    LIVING SPACE." is a row of the
\* table when <v> starts with digits.
RECURSIVE ClassRows(_)
ClassRows(tc) ==
  LET Row(c, sq) ==
        IF c.k = "ClassRow" /\ ~IsNull(sq) /\ sq.str = c.v
        THEN <<[ occupancy_class |-> Str(<<"R", "-", "3">>),
                 construction_type |-> Str(<<"V", "B">>),
                 square_feet |-> parseNumber(sq),
                 occupancy_load |-> parseNumber(Str(<<"8">>)),
                 use_description |-> Str(<<"L", "I", "V", "I", "N", "G", " ",
                                           "S", "P", "A", "C", "E">>) ]>>
        ELSE << >>
  IN IF tc = << >> THEN << >>
     ELSE Row(Head(tc), CapPrefix(Head(tc).v, {}, Digits)) \o ClassRows(Tail(tc))

parseBuildingClassification(content) ==
  LET Rows(sp) == IF IsNull(sp) THEN Arr(<< >>) ELSE Arr(ClassRows(SpanText(content, sp)))
  IN Rows(BuildingClassificationSpan(content))

\* ------------------------------------------------------------------------
\* parseCorrections
\* ------------------------------------------------------------------------
\* "-", en dash, em dash
Dashes == {"-", "en-dash", "em-dash"}

\* The text of a line of a block.  The lines the item pattern reads are the
\* numbered items and the free text; a line of another kind begins with a
\* character that is neither a blank nor a digit and stands as "x".
LineText(c) == IF c.k \in {"Item", "Text"} THEN c.v ELSE <<"x">>

\* The lines of the chunks cs, each with its newline.
RECURSIVE Lines(_)
Lines(cs) ==
  IF cs = << >> THEN << >> ELSE LineText(Head(cs)) \o <<"\n">> \o Lines(Tail(cs))

\* ^ under the m flag
LineStart(t, p) == p = 1 \/ t[p - 1] = "\n"

\* ^\s*(\d+)\. at position p of t
ItemPrefix(t, p) ==
  LET Dot(a, e) == e > a /\ e <= Len(t) /\ t[e] = "."
      At(a) == Dot(a, RunEnd(t, a, Digits))
  IN LineStart(t, p) /\ At(RunEnd(t, p, Space))

\* /^\s*(\d+)\.\s*(?:(\d{1,2}\/\d{1,2}\/\d{2,4})\s*[-en-dash em-dash]?\s*)?([\s\S]*?)
\*  (?=^\s*\d+\.|^[A-Za-z]+\nReviewer:|$)/gm
\* at position p of the block's text t, where ItemPrefix(t, p): the item's
\* number, date text and body, and the index after the match.  The number
\* is t[a .. e-1]; b is where the date d may start, c where the body starts
\* and q where it ends: at once when the next item starts there, else at
\* the end of the line.  The blanks skipped may be newlines.
itemMatch(t, p) ==
  LET Groups(a, e, b, d, c, q) ==
        [ number |-> Slice(t, a, e),
          date |-> IF IsNull(d) THEN JsNull ELSE Str(Slice(t, b, d.end)),
          text |-> Slice(t, c, q),
          end |-> q ]
      Ended(a, e, b, d, c) ==
        Groups(a, e, b, d, c,
               IF ItemPrefix(t, c) THEN c ELSE RunEndNot(t, c, {"\n"}))
      PastDash(c1) ==
        RunEnd(t, IF c1 <= Len(t) /\ t[c1] \in Dashes THEN c1 + 1 ELSE c1, Space)
      Dated(a, e, b, d) ==
        Ended(a, e, b, d, IF IsNull(d) THEN b ELSE PastDash(RunEnd(t, d.end, Space)))
      Body(a, e, b) == Dated(a, e, b, DateAt(t, b, 2, 4))
      Number(a, e) == Body(a, e, RunEnd(t, e + 1, Space))
      At(a) == Number(a, RunEnd(t, a, Digits))
  IN At(RunEnd(t, p, Space))

\* while ((itemMatch = itemRegex.exec(block)) !== null) from lastIndex pos
RECURSIVE BlockItems(_, _)
BlockItems(t, pos) ==
  LET Item(m) ==
        IF cleanText(m.text) # << >>
        THEN <<[ number |-> Num(100 * DigitsVal(m.number)),
                 date |-> IF IsNull(m.date) THEN JsNull ELSE parseDate(m.date),
                 text |-> Str(cleanText(m.text)) ]>>
        ELSE << >>
      Rest(m) == Item(m) \o BlockItems(t, m.end)
      From(p) == IF p > Len(t) THEN << >> ELSE Rest(itemMatch(t, p))
  IN From(FirstIn({p \in pos .. Len(t) : ItemPrefix(t, p)}, Len(t)))

\* Kinds whose line is made of letters and blanks only.
LetterLineKinds ==
  {"Sprinkler", "OccHeader", "TaskHeader", "GeneralComments", "ZoningPlansExam",
   "EndZoning", "PlanningDept", "InformationBlock", "BuildingHeading",
   "ElectricalHeading", "MetroCode", "NorthTexas"}
LetterLine(c) ==
  \/ c.k \in LetterLineKinds
  \/ c.k \in {"Text", "Item"} /\ \A i \in 1 .. Len(c.v) : c.v[i] \in Letters \cup {" "}
LetterStart(c) ==
  \/ c.k \in LetterLineKinds
  \/ c.k \in {"Text", "Item"} /\ c.v # << >> /\ c.v[1] \in Letters

\* split(/(?=^[A-Za-z][A-Za-z\s]*\nReviewer:)/m): the text is cut at every
\* header, and at every line that begins with a letter and from which only
\* letters and blanks lead to a header.  The block of header h, the next
\* header being nxt, ends at the first cut after h (BlockEndSection: at the
\* end of the section, whatever headers follow).
BlockEndSection(cc, h, nxt) == Len(cc) + 1
BlockEnd(cc, h, nxt) ==
  IF nxt > Len(cc) THEN nxt
  ELSE SetMin({i \in (h + 1) .. nxt :
                 \/ i = nxt
                 \/ /\ LetterStart(cc[i])
                    /\ \A j \in i .. (nxt - 1) : LetterLine(cc[j])})

\* The blocks of the section: one per department header, each running to
\* the next cut; what precedes the first header, and a piece without a
\* header, has no department and is skipped.
RECURSIVE CorrectionBlocks(_)
CorrectionBlocks(cc) ==
  LET Block(h, nxt) ==
        IF h > Len(cc) THEN << >>
        ELSE <<[ department |-> Str(cleanText(cc[h].v)),
                 reviewer |-> [ name |-> Str(<<"J", " ", "D", "o", "e">>),
                                email |-> Str(<<"j", "d", "@", "f", "w", ".", "g", "o", "v">>),
                                phone |-> Str(<<"8", "1", "7", "5", "5", "5", "0", "1", "0", "0">>) ],
                 items |-> Arr(BlockItems(Lines(SubSeq(cc, h + 1, BlockEnd(cc, h, nxt) - 1)), 1)) ]>>
             \o CorrectionBlocks(SubSeq(cc, nxt, Len(cc)))
      From(h) == Block(h, FirstKind(cc, h + 1, {"Dept"}))
  IN From(FirstKind(cc, 1, {"Dept"}))

parseCorrectionsNull(content) ==
  LET Blocks(sp) == IF IsNull(sp) THEN JsNull
                    ELSE Arr(CorrectionBlocks(SpanText(content, sp)))
  IN Blocks(CorrectionsSpan(content))
parseCorrections(content) ==
  LET Blocks(sp) == IF IsNull(sp) THEN Arr(<< >>)
                    ELSE Arr(CorrectionBlocks(SpanText(content, sp)))
  IN Blocks(CorrectionsSpan(content))

\* ------------------------------------------------------------------------
\* parseApprovalTable
\* ------------------------------------------------------------------------
\* /^([A-Za-z][A-Za-z\s&\/]+?)\s{2,}(Approved|..|Pending)\s+
\*  (\d{1,2}\/\d{1,2}\/\d{4})?\s*(.*)$/ on the line "Zoning Review  Approved<v>"
taskMatch(v) ==
  LET Groups(a, d) ==
        IF a > 1
        THEN [ date |-> IF IsNull(d) THEN JsNull ELSE Str(Slice(v, a, d.end)),
               rest |-> Slice(v, IF IsNull(d) THEN a ELSE RunEnd(v, d.end, Space),
                              Len(v) + 1) ]
        ELSE JsNull
      At(a) == Groups(a, DateAt(v, a, 4, 4))
  IN At(RunEnd(v, 1, Space))

RECURSIVE TaskRows(_)
TaskRows(tc) ==
  LET Row(m) ==
        IF ~IsNull(m)
        THEN <<[ task_name |-> Str(<<"Z", "o", "n", "i", "n", "g", " ",
                                     "R", "e", "v", "i", "e", "w">>),
                 status |-> Str(<<"A", "p", "p", "r", "o", "v", "e", "d">>),
                 completed_date |-> parseDate(m.date),
                 reviewer_name |-> CleanOrNull(Str(m.rest)) ]>>
        ELSE << >>
      Line(c) == Row(IF c.k = "TaskRow" THEN taskMatch(c.v) ELSE JsNull)
  IN IF tc = << >> THEN << >>
     ELSE Line(Head(tc)) \o TaskRows(Tail(tc))

parseApprovalTable(content) ==
  LET Rows(sp) == IF IsNull(sp) THEN Arr(<< >>) ELSE Arr(TaskRows(SpanText(content, sp)))
  IN Rows(ApprovalTableSpan(content))

\* ------------------------------------------------------------------------
\* parseThirdPartyReview
\* ------------------------------------------------------------------------
\* What follows chunk i of the span text ic: a newline and the first
\* character of the next line ("x" for a letter), or only the newline
\* before the terminator, or nothing at the end of the document.
LineTail(ic, i, terminated) ==
  IF i < Len(ic)
  THEN IF ic[i + 1].k = "Item" /\ ic[i + 1].v # << >> THEN <<"\n", ic[i + 1].v[1]>>
       ELSE IF ic[i + 1].k = "ColonValue" THEN <<"\n", ":">>
       ELSE IF ic[i + 1].k = "ParenProvided" THEN <<"\n", "(">>
       ELSE <<"\n", "x">>
  ELSE IF terminated THEN <<"\n">> ELSE << >>

\* /Plan Review Performed On:\s*(\d{1,2}\/\d{1,2}\/\d{4})/i
dateMatch(ic) ==
  FieldAt(ic, "PlanReviewDate", [i \in 1 .. Len(ic) |-> DateCap(ic[i].v)])

\* \s* gives its blanks back one by one until the capture can start: the
\* capture from the last blank before a that is not a newline, to the end
\* of its line.
GiveBack(t, a) ==
  LET From(back) ==
        IF back = {} THEN JsNull
        ELSE Str(Slice(t, SetMax(back), RunEndNot(t, SetMax(back), {"\n"})))
  IN From({b \in 1 .. (a - 1) : t[b] # "\n"})

\* /By:\s*([^\d\n]+)/i
byMatch(ic, terminated) ==
  LET Cap(t, a, e) == IF e > a THEN Str(Slice(t, a, e)) ELSE GiveBack(t, a)
      At(t, a) == Cap(t, a, RunEndNot(t, a, Digits \cup {"\n"}))
      Line(t) == At(t, RunEnd(t, 1, Space))
  IN FieldAt(ic, "ReviewedBy",
             [i \in 1 .. Len(ic) |-> Line(<<" ">> \o ic[i].v \o LineTail(ic, i, terminated))])

\* /Name of Tenant:\s*(.+?)(?:\n|$)/i
tenantMatch(ic, terminated) ==
  LET At(t, a) == IF a <= Len(t) THEN Str(Slice(t, a, RunEndNot(t, a, {"\n"})))
                  ELSE GiveBack(t, a)
      Line(t) == At(t, RunEnd(t, 1, Space))
  IN FieldAt(ic, "Tenant",
             [i \in 1 .. Len(ic) |-> Line(<<" ">> \o ic[i].v \o LineTail(ic, i, terminated))])

\* content.includes("METRO CODE") || content.includes("metrocode.com"), else
\* content.includes("NORTH TEXAS") || content.includes("ntispros.com")
\* (CompanyInSpan: the same scan over the INFORMATION BLOCK span only).
CompanyInSpan(content) ==
  LET Scan(ic) ==
        IF \E i \in 1 .. Len(ic) : ic[i].k \in {"MetroCode", "MetroCodeCom"}
        THEN Str(<<"Metro Code Analysis">>)
        ELSE IF \E i \in 1 .. Len(ic) : ic[i].k \in {"NorthTexas", "NtisprosCom"}
        THEN Str(<<"North Texas Inspection Services">>)
        ELSE JsNull
      In(sp) == IF IsNull(sp) THEN JsNull ELSE Scan(SpanText(content, sp))
  IN In(ThirdPartySpan(content))
Company(content) ==
  IF \E i \in 1 .. Len(content) : content[i].k \in {"MetroCode", "MetroCodeCom"}
  THEN Str(<<"Metro Code Analysis">>)
  ELSE IF \E i \in 1 .. Len(content) : content[i].k \in {"NorthTexas", "NtisprosCom"}
  THEN Str(<<"North Texas Inspection Services">>)
  ELSE JsNull

parseThirdPartyReview(content) ==
  LET Review(dm, bm, tm) ==
        IF IsNull(dm) /\ IsNull(bm) /\ IsNull(tm) THEN JsNull
        ELSE [ company |-> Company(content),
               plan_review_date |-> parseDate(dm),
               reviewed_by |-> CleanOrNull(bm),
               tenant_builder |-> CleanOrNull(tm) ]
      Fields(ic, terminated) ==
        Review(dateMatch(ic), byMatch(ic, terminated), tenantMatch(ic, terminated))
      In(sp) == IF IsNull(sp) THEN JsNull
                ELSE Fields(SpanText(content, sp), sp.to < Len(content))
  IN In(ThirdPartySpan(content))

\* ------------------------------------------------------------------------
\* parsePermitComments
\* ------------------------------------------------------------------------
\* The text of a document as a string: the chunks joined by newlines, the
\* literal text of a kind written as one element named after the kind.
ChunkText(c) == IF LitLen(c.k) = 0 THEN c.v ELSE <<c.k>> \o c.v
RECURSIVE RawText(_)
RawText(content) ==
  IF content = << >> THEN << >>
  ELSE IF Len(content) = 1 THEN ChunkText(content[1])
  ELSE ChunkText(content[1]) \o <<"\n">> \o RawText(Tail(content))

\* The record of one document.  Left out, as no statement is made about
\* them: description_of_work, applicant, owner, and status, date_issued,
\* parcel, zoning, subdivision, lot and block of the header.
parsePermitComments(content, includeRaw) ==
  LET Permit(h, bc, co, at, zr, tp) ==
        IF includeRaw
        THEN [ application |-> h.application,
               property |-> h.property,
               building_classification |-> bc,
               corrections |-> co,
               approval_tasks |-> at,
               zoning_review |-> zr,
               third_party_review |-> tp,
               raw_text |-> Str(RawText(content)) ]
        ELSE [ application |-> h.application,
               property |-> h.property,
               building_classification |-> bc,
               corrections |-> co,
               approval_tasks |-> at,
               zoning_review |-> zr,
               third_party_review |-> tp ]
  IN Permit(parseHeader(content), parseBuildingClassification(content),
            parseCorrections(content), parseApprovalTable(content),
            parseZoningReview(content), parseThirdPartyReview(content))

\* ------------------------------------------------------------------------
\* toCSV
\* ------------------------------------------------------------------------
\* Decimal digits of a natural number, and String(n) of a number held in
\* hundredths: the integer part, then the fraction without trailing zeros.
DigitChar(d) == <<"0", "1", "2", "3", "4", "5", "6", "7", "8", "9">>[d + 1]
RECURSIVE NatText(_)
NatText(n) == IF n < 10 THEN <<DigitChar(n)>> ELSE NatText(n \div 10) \o <<DigitChar(n % 10)>>
NumText(h) ==
  LET Frac(f) == IF f = 0 THEN << >>
                 ELSE IF f % 10 = 0 THEN <<".", DigitChar(f \div 10)>>
                 ELSE <<".", DigitChar(f \div 10), DigitChar(f % 10)>>
  IN NatText(h \div 100) \o Frac(h % 100)

\* String.prototype.toLowerCase on the letters of the alphabet.
UpperCase == <<"A", "B", "C", "D", "E", "F", "G", "H", "I", "J", "K", "L", "M",
               "N", "O", "P", "Q", "R", "S", "T", "U", "V", "W", "X", "Y", "Z">>
LowerCase == <<"a", "b", "c", "d", "e", "f", "g", "h", "i", "j", "k", "l", "m",
               "n", "o", "p", "q", "r", "s", "t", "u", "v", "w", "x", "y", "z">>
LowerChar(c) ==
  IF \E k \in 1 .. 26 : UpperCase[k] = c
  THEN LowerCase[CHOOSE k \in 1 .. 26 : UpperCase[k] = c] ELSE c
toLowerCase(s) == [i \in 1 .. Len(s) |-> LowerChar(s[i])]

\* String(val) of a value that is not null: a string, a number or a boolean.
StringOf(val) ==
  IF DOMAIN val = {"bool"}
  THEN (IF val.bool THEN <<"t", "r", "u", "e">> ELSE <<"f", "a", "l", "s", "e">>)
  ELSE IF DOMAIN val = {"num"} THEN NumText(val.num)
  ELSE val.str

\* str.replace(/"/g, '""')
RECURSIVE DoubleQuotes(_)
DoubleQuotes(s) ==
  IF s = << >> THEN << >>
  ELSE (IF s[1] = "\"" THEN <<"\"", "\"">> ELSE <<s[1]>>) \o DoubleQuotes(Tail(s))

\* escapeCSV: "" for null and undefined; the text in quotes, its quotes
\* doubled, when it holds a comma, a quote or a newline.
escapeCSV(val) ==
  LET Quoted(str) ==
        IF \E i \in 1 .. Len(str) : str[i] \in {",", "\"", "\n"}
        THEN <<"\"">> \o DoubleQuotes(str) \o <<"\"">> ELSE str
  IN IF IsNull(val) THEN << >> ELSE Quoted(StringOf(val))

\* The columns of the flat output, in order (those of the fields modelled).
headers ==
  << "application_number", "date_submitted", "address", "living_sqft", "garage_sqft",
     "zoning_district", "plat_number", "slab_sf", "lot_area_sf",
     "lot_coverage_max", "lot_coverage_provided", "height_max", "height_provided",
     "lot_width_min", "lot_width_provided",
     "driveway_coverage_max", "driveway_coverage_provided",
     "setback_front_min", "setback_front_provided", "setback_side_min",
     "setback_side_left_provided", "setback_side_right_provided",
     "setback_rear_min", "setback_rear_provided",
     "bedrooms", "parking_required", "parking_provided", "ufc_permit",
     "third_party_company", "builder", "correction_count",
     "has_water_corrections", "has_zoning_corrections", "has_pard_corrections" >>

\* x?.f
Opt(x, f) == IF IsNull(x) THEN JsNull ELSE x[f]

\* building_classification.find(c => c.occupancy_class === cls)?.square_feet
SquareFeetOf(bc, cls) ==
  LET Found(H) == IF H = {} THEN JsNull ELSE bc[SetMin(H)].square_feet
  IN Found({k \in 1 .. Len(bc) : bc[k].occupancy_class = Str(cls)})

\* corrections.reduce((sum, c) => sum + c.items.length, 0)
RECURSIVE totalCorrectionItems(_)
totalCorrectionItems(corr) ==
  IF corr = << >> THEN 0 ELSE Len(Head(corr).items.arr) + totalCorrectionItems(Tail(corr))

\* correctionDepts.includes(name), correctionDepts the lower-cased names
\* (DeptsIncludeCased: the names as they are).
DeptsIncludeCased(corr, name) ==
  \E k \in 1 .. Len(corr) : corr[k].department.str = name
DeptsInclude(corr, name) ==
  \E k \in 1 .. Len(corr) : toLowerCase(corr[k].department.str) = name

\* The values of one row before escaping.
RowValues(p) ==
  LET Dim(z, f, g) == Opt(Opt(z, f), g)
      Setback(z, f, g) == Opt(Opt(Opt(z, "setbacks"), f), g)
      Parking(z, f) == Opt(Opt(z, "parking"), f)
      Row(z, t, bc, co) ==
        << p.application.number, p.application.date_submitted, p.property.address,
           SquareFeetOf(bc, <<"R", "-", "3">>), SquareFeetOf(bc, <<"U">>),
           Opt(z, "zoning_district"), Opt(z, "plat_number"),
           Opt(z, "slab_sf"), Opt(z, "lot_area_sf"),
           Dim(z, "lot_coverage", "maximum"), Dim(z, "lot_coverage", "provided"),
           Dim(z, "height", "maximum"), Dim(z, "height", "provided"),
           Dim(z, "lot_width", "maximum"), Dim(z, "lot_width", "provided"),
           Dim(z, "driveway_coverage", "maximum"), Dim(z, "driveway_coverage", "provided"),
           Setback(z, "front", "maximum"), Setback(z, "front", "provided"),
           Setback(z, "side_left", "maximum"), Setback(z, "side_left", "provided"),
           Setback(z, "side_right", "provided"),
           Setback(z, "rear", "maximum"), Setback(z, "rear", "provided"),
           Parking(z, "bedrooms"), Parking(z, "required"), Parking(z, "provided"),
           Opt(z, "ufc_permit"),
           Opt(t, "company"), Opt(t, "tenant_builder"),
           Num(100 * totalCorrectionItems(co)),
           Bool(DeptsInclude(co, <<"w", "a", "t", "e", "r">>)),
           Bool(DeptsInclude(co, <<"z", "o", "n", "i", "n", "g">>)),
           Bool(DeptsInclude(co, <<"p", "a", "r", "d">>)) >>
  IN Row(p.zoning_review, p.third_party_review,
         p.building_classification.arr, p.corrections.arr)

\* toCSV: the header line and one line per record, each a sequence of cells
\* (the cells of a line are then joined by "," and the lines by "\n").
toCSV(ps) ==
  LET Cells(vals) == [c \in 1 .. Len(vals) |-> escapeCSV(vals[c])]
  IN <<headers>> \o [i \in 1 .. Len(ps) |-> Cells(RowValues(ps[i]))]

\* ------------------------------------------------------------------------
\* JSON.stringify
\* ------------------------------------------------------------------------
\* The characters a JSON string writes with a backslash, and the letter
\* that follows the backslash.
Escapes == <<"\"", "\\", "\n", "\r", "\t", "\f">>
EscapeLetters == <<"\"", "\\", "n", "r", "t", "f">>
QuoteChar(c) ==
  IF \E k \in DOMAIN Escapes : Escapes[k] = c
  THEN <<"\\", EscapeLetters[CHOOSE k \in DOMAIN Escapes : Escapes[k] = c]>>
  ELSE <<c>>
RECURSIVE QuoteChars(_)
QuoteChars(s) ==
  IF s = << >> THEN << >>
  ELSE IF Len(s) = 1 THEN QuoteChar(s[1])
  ELSE QuoteChars(SubSeq(s, 1, Len(s) \div 2))
       \o QuoteChars(SubSeq(s, Len(s) \div 2 + 1, Len(s)))
QuoteString(s) == <<"\"">> \o QuoteChars(s) \o <<"\"">>

\* The property names, in the order in which the records are built.
KeyOrder ==
  << "application", "number", "date_submitted", "property", "address",
     "building_classification", "occupancy_class", "construction_type",
     "square_feet", "occupancy_load", "use_description",
     "corrections", "department", "reviewer", "name", "email", "phone",
     "items", "date", "text",
     "approval_tasks", "task_name", "status", "completed_date", "reviewer_name",
     "zoning_review", "zoning_district", "plat_name", "plat_number", "slab_sf",
     "lot_area_sf", "lot_coverage", "maximum", "height", "lot_width",
     "driveway_coverage", "setbacks", "front", "side_left", "side_right", "rear",
     "parking", "bedrooms", "required", "provided", "ufc_permit",
     "third_party_review", "company", "plan_review_date", "reviewed_by",
     "tenant_builder", "raw_text" >>

\* The keys of obj that are written, among the names lo .. hi of KeyOrder:
\* every own key, as no value of a record is undefined.  DefinedKeys is
\* the variant that would also leave out the keys whose value is null.
RECURSIVE DefinedKeys(_, _, _)
DefinedKeys(obj, lo, hi) ==
  IF lo > hi THEN << >>
  ELSE IF lo = hi
  THEN (IF KeyOrder[lo] \in DOMAIN obj /\ ~IsNull(obj[KeyOrder[lo]])
        THEN <<KeyOrder[lo]>> ELSE << >>)
  ELSE DefinedKeys(obj, lo, (lo + hi) \div 2) \o DefinedKeys(obj, (lo + hi) \div 2 + 1, hi)
RECURSIVE OwnKeys(_, _, _)
OwnKeys(obj, lo, hi) ==
  IF lo > hi THEN << >>
  ELSE IF lo = hi THEN (IF KeyOrder[lo] \in DOMAIN obj THEN <<KeyOrder[lo]>> ELSE << >>)
  ELSE OwnKeys(obj, lo, (lo + hi) \div 2) \o OwnKeys(obj, (lo + hi) \div 2 + 1, hi)

\* JSON.stringify(value) without indentation: null, a number, a string, an
\* array or an object.  A key is one element of the text.
RECURSIVE JSONstringify(_)
RECURSIVE Elements(_, _, _)
RECURSIVE Members(_, _, _, _)
\* The elements lo .. hi of an array, and the members of the keys lo .. hi
\* of an object, separated by commas.
Elements(s, lo, hi) ==
  IF lo > hi THEN << >>
  ELSE IF lo = hi THEN JSONstringify(s[lo])
  ELSE Elements(s, lo, (lo + hi) \div 2) \o <<",">> \o Elements(s, (lo + hi) \div 2 + 1, hi)
Members(obj, ks, lo, hi) ==
  IF lo > hi THEN << >>
  ELSE IF lo = hi THEN <<"\"", ks[lo], "\"", ":">> \o JSONstringify(obj[ks[lo]])
  ELSE Members(obj, ks, lo, (lo + hi) \div 2) \o <<",">>
       \o Members(obj, ks, (lo + hi) \div 2 + 1, hi)
KeysOf(obj) == OwnKeys(obj, 1, Len(KeyOrder))
JSONstringify(val) ==
  IF DOMAIN val = {"null"} THEN <<"n", "u", "l", "l">>
  ELSE IF DOMAIN val = {"num"} THEN NumText(val.num)
  ELSE IF DOMAIN val = {"str"} THEN QuoteString(val.str)
  ELSE IF DOMAIN val = {"arr"}
  THEN <<"[">> \o Elements(val.arr, 1, Len(val.arr)) \o <<"]">>
  ELSE <<"{">> \o Members(val, KeysOf(val), 1, Len(KeysOf(val))) \o <<"}">>

\* ------------------------------------------------------------------------
\* Files
\* ------------------------------------------------------------------------
\* UTF-16 code unit of the characters file names are made of.
CharCode(c) ==
  CASE c = "." -> 46 [] c = "/" -> 47 [] c = "0" -> 48 [] c = "1" -> 49
    [] c = "2" -> 50 [] c = "B" -> 66 [] c = "P" -> 80 [] c = "d" -> 100
    [] c = "f" -> 102 [] c = "i" -> 105 [] c = "n" -> 110 [] c = "p" -> 112
    [] c = "t" -> 116 [] c = "x" -> 120

\* a < b as JavaScript compares strings (by code unit, a prefix first).
RECURSIVE StrLess(_, _)
StrLess(a, b) ==
  IF b = << >> THEN FALSE
  ELSE IF a = << >> THEN TRUE
  ELSE IF a[1] # b[1] THEN CharCode(a[1]) < CharCode(b[1])
  ELSE StrLess(Tail(a), Tail(b))

\* Array.prototype.sort() with the default comparison.
RECURSIVE Insert(_, _)
Insert(x, sorted) ==
  IF sorted = << >> THEN <<x>>
  ELSE IF StrLess(x, Head(sorted)) THEN <<x>> \o sorted
  ELSE <<Head(sorted)>> \o Insert(x, Tail(sorted))
RECURSIVE Sort(_)
Sort(xs) == IF xs = << >> THEN << >> ELSE Insert(Head(xs), Sort(Tail(xs)))

endsWithTxt(f) ==
  Len(f) >= 4 /\ SubSeq(f, Len(f) - 3, Len(f)) = <<".", "t", "x", "t">>

pathJoin(dir, f) == dir \o <<"/">> \o f

\* .filter(f => f.endsWith(".txt")).map(f => path.join(dir, f))
RECURSIVE TxtEntries(_, _)
TxtEntries(dir, names) ==
  IF names = << >> THEN << >>
  ELSE (IF endsWithTxt(Head(names)) THEN <<pathJoin(dir, Head(names))>> ELSE << >>)
       \o TxtEntries(dir, Tail(names))

\* getTxtFiles: the .txt entries of the directory, as paths, sorted; a
\* missing directory (listing JsNull) gives no file.
getTxtFilesUnsorted(dir, listing) ==
  IF IsNull(listing) THEN << >> ELSE TxtEntries(dir, listing.arr)
getTxtFiles(dir, listing) ==
  IF IsNull(listing) THEN << >> ELSE Sort(TxtEntries(dir, listing.arr))

\* processFile: the record of the file, or null when reading it throws.
\* fsys maps the paths that exist to [readable, text].
\* processFileFirstRaw is the variant that keeps the raw text of the first
\* file of the directory only.
processFileGated(fsys, filepath, includeRaw) ==
  IF fsys[filepath].readable
     /\ parseHeader(fsys[filepath].text).application.number # Str(<< >>)
  THEN parsePermitComments(fsys[filepath].text, includeRaw)
  ELSE JsNull
processFileFirstRaw(fsys, filepath, includeRaw) ==
  IF fsys[filepath].readable
  THEN parsePermitComments(fsys[filepath].text,
                           includeRaw /\ \A f \in DOMAIN fsys : ~StrLess(f, filepath))
  ELSE JsNull
processFile(fsys, filepath, includeRaw) ==
  IF fsys[filepath].readable
  THEN parsePermitComments(fsys[filepath].text, includeRaw)
  ELSE JsNull

\* ------------------------------------------------------------------------
\* main: the batch driver
\* ------------------------------------------------------------------------
VARIABLES
  opts,          \* the command line: single (a path or null), includeRaw, format
  listing,       \* what readdirSync returns for the input directory (null: no directory)
  fsys,          \* the files that exist: path -> [readable, text]
  pc,            \* position of main: "start", "loop", "output", "done", "exit"
  files,         \* the list of files to process
  idx,           \* index in files of the next file of the for loop
  permits,       \* the records collected so far
  sources,       \* history: the file each record of permits was parsed from
  successCount,
  errorCount,
  tally,         \* the "Processed: s success, e errors" line (null until printed)
  output         \* what is written (null until written)

\* The state of download_comments.ts.
VARIABLES
  cmd,           \* the command line: force, maxRetries
  csvs,          \* the "Permit Number" column of each CSV file main has yet to use
  allPermits,    \* the numbers parseCSV returned, file after file
  comments,      \* COMMENTS_DIR: permit number -> the PDF saved under it (null: none)
  at,            \* position of main
  uniquePermits,
  loopI,         \* i: the index in uniquePermits of the permit of the for loop
  attempt,       \* the counter of the retry loop
  lastResult,    \* result: the ProcessResult of the last attempt
  capturedPdf,   \* the module-level store the route interceptor writes
  inflight,      \* the permits whose popup has a request the interceptor has not answered yet
  downloaded,
  skipped,
  failed,
  log,           \* console lines, portal requests and file writes, in order
  report         \* the counts of the summary and the report (null until written)

xvars == <<opts, listing, fsys, pc, files, idx, permits, sources,
           successCount, errorCount, tally, output>>
dvars == <<cmd, csvs, allPermits, comments, at, uniquePermits, loopI, attempt, lastResult,
           capturedPdf, inflight, downloaded, skipped, failed, log, report>>
vars == <<xvars, dvars>>

InputDir == <<"i", "n">>

\* opts.single names a file that exists
SingleFile ==
  /\ pc = "start"
  /\ ~IsNull(opts.single)
  /\ opts.single.str \in DOMAIN fsys
  /\ files' = <<opts.single.str>>
  /\ pc' = "loop"
  /\ UNCHANGED dvars
  /\ UNCHANGED <<opts, listing, fsys, idx, permits, sources, successCount,
                 errorCount, tally, output>>

\* opts.single names no file: "File not found", process.exit(1)
SingleNotFound ==
  /\ pc = "start"
  /\ ~IsNull(opts.single)
  /\ opts.single.str \notin DOMAIN fsys
  /\ pc' = "exit"
  /\ UNCHANGED dvars
  /\ UNCHANGED <<opts, listing, fsys, files, idx, permits, sources,
                 successCount, errorCount, tally, output>>

\* files = getTxtFiles(inputDir), not empty
InputDirectory ==
  /\ pc = "start"
  /\ IsNull(opts.single)
  /\ getTxtFiles(InputDir, listing) # << >>
  /\ files' = getTxtFiles(InputDir, listing)
  /\ pc' = "loop"
  /\ UNCHANGED dvars
  /\ UNCHANGED <<opts, listing, fsys, idx, permits, sources, successCount,
                 errorCount, tally, output>>

\* "No .txt files found", process.exit(1)
NoTxtFiles ==
  /\ pc = "start"
  /\ IsNull(opts.single)
  /\ getTxtFiles(InputDir, listing) = << >>
  /\ pc' = "exit"
  /\ UNCHANGED dvars
  /\ UNCHANGED <<opts, listing, fsys, files, idx, permits, sources,
                 successCount, errorCount, tally, output>>

\* One iteration of "for (const file of files)".
ProcessNextFileAbort ==
  /\ pc = "loop"
  /\ idx <= Len(files)
  /\ LET Handle(result) ==
           IF ~IsNull(result)
           THEN /\ permits' = Append(permits, result)
                /\ sources' = Append(sources, files[idx])
                /\ successCount' = successCount + 1
                /\ idx' = idx + 1
                /\ UNCHANGED errorCount
           ELSE /\ errorCount' = errorCount + 1
                /\ idx' = Len(files) + 1
                /\ UNCHANGED <<permits, sources, successCount>>
     IN Handle(processFile(fsys, files[idx], opts.includeRaw))
  /\ UNCHANGED dvars
  /\ UNCHANGED <<opts, listing, fsys, pc, files, tally, output>>
ProcessNextFile ==
  /\ pc = "loop"
  /\ idx <= Len(files)
  /\ LET Handle(result) ==
           IF ~IsNull(result)
           THEN /\ permits' = Append(permits, result)
                /\ sources' = Append(sources, files[idx])
                /\ successCount' = successCount + 1
                /\ UNCHANGED errorCount
           ELSE /\ errorCount' = errorCount + 1
                /\ UNCHANGED <<permits, sources, successCount>>
     IN Handle(processFile(fsys, files[idx], opts.includeRaw))
  /\ idx' = idx + 1
  /\ UNCHANGED dvars
  /\ UNCHANGED <<opts, listing, fsys, pc, files, tally, output>>

\* console.log(`Processed: ${successCount} success, ${errorCount} errors`)
Report ==
  /\ pc = "loop"
  /\ idx > Len(files)
  /\ tally' = [success |-> successCount, errors |-> errorCount]
  /\ pc' = "output"
  /\ UNCHANGED dvars
  /\ UNCHANGED <<opts, listing, fsys, files, idx, permits, sources,
                 successCount, errorCount, output>>

\* The records are written in the order of permits.
WriteOutput ==
  /\ pc = "output"
  /\ output' = [ format |-> opts.format, records |-> Arr(permits),
                 lines |-> IF opts.format = "csv" THEN toCSV(permits) ELSE << >>,
                 text |-> IF opts.format = "csv" THEN << >>
                          ELSE JSONstringify(Arr(permits)) ]
  /\ pc' = "done"
  /\ UNCHANGED dvars
  /\ UNCHANGED <<opts, listing, fsys, files, idx, permits, sources,
                 successCount, errorCount, tally>>

Next ==
  \/ SingleFile
  \/ SingleNotFound
  \/ InputDirectory
  \/ NoTxtFiles
  \/ ProcessNextFile
  \/ Report
  \/ WriteOutput

\* ------------------------------------------------------------------------
\* download_comments.ts
\* ------------------------------------------------------------------------
\* String.prototype.includes and String.prototype.trim
includes(s, sub) ==
  \E k \in 0 .. (Len(s) - Len(sub)) : SubSeq(s, k + 1, k + Len(sub)) = sub
trim(s) == TrimRight(TrimLeft(s))

\* parseCSV: the values of the column that are not empty, not blank and do
\* not hold "TMP".  parseCSVAll is the variant without the filter.
parseCSVAll(column) == column
RECURSIVE parseCSV(_)
parseCSV(column) ==
  LET Keep(p) == p # << >> /\ trim(p) # << >> /\ ~includes(p, <<"T", "M", "P">>)
      Kept(p) == IF Keep(p) THEN <<p>> ELSE << >>
  IN IF column = << >> THEN << >> ELSE Kept(Head(column)) \o parseCSV(Tail(column))

\* for (const csvFile of csvFiles) allPermits.push(...parseCSV(csvFile))
RECURSIVE ReadAll(_)
ReadAll(cs) == IF cs = << >> THEN << >> ELSE parseCSV(Head(cs)) \o ReadAll(Tail(cs))

\* [...new Set(allPermits)]: each value once, in the order of first occurrence.
\* KeepAll is the variant that removes nothing.
KeepAll(s) == s
RECURSIVE Unique(_)
Unique(s) ==
  LET Add(u, p) == IF \E k \in 1 .. Len(u) : u[k] = p THEN u ELSE Append(u, p)
  IN IF s = << >> THEN << >> ELSE Add(Unique(SubSeq(s, 1, Len(s) - 1)), s[Len(s)])

\* pdfExists: <permitNumber>_Comments.pdf is in COMMENTS_DIR.  NeverExists
\* is the variant that finds no file.
NeverExists(dir, permitNumber) == FALSE
pdfExists(dir, permitNumber) == ~IsNull(dir[permitNumber])

\* A PDF with the comments of permit p: one that lay in COMMENTS_DIR before
\* the run, and the body of the response to a request of this run.
OldPdf(p) == [doc |-> p, fresh |-> FALSE]
Body(p) == [doc |-> p, fresh |-> TRUE]

Ev(e, p) == [ev |-> e, permit |-> p]
Failure(reason) == [success |-> FALSE, skipped |-> FALSE, failReason |-> reason]
NoResult == Failure(JsNull)

\* attempt <= maxRetries, the condition of the retry loop.  OneMoreAttempt
\* is the variant that lets one more attempt through.
OneMoreAttempt(a, maxRetries) == a <= maxRetries + 1
RetryCondition(a, maxRetries) == a <= maxRetries

\* The permit of the current iteration.
Permit == uniquePermits[loopI]

\* allPermits and uniquePermits are collected from the CSV files, which are
\* all read here; main does not use the files again once the loop has begun.
CollectPermits ==
  /\ at = "start"
  /\ allPermits' = ReadAll(csvs)
  /\ uniquePermits' = Unique(ReadAll(csvs))
  /\ at' = "for"
  /\ UNCHANGED <<cmd, csvs, comments, loopI, attempt, lastResult, capturedPdf, inflight,
                 downloaded, skipped, failed, log, report>>
  /\ UNCHANGED xvars

\* for (let i = 0; i < uniquePermits.length; i++): the body begins.
NextPermit ==
  /\ at = "for"
  /\ loopI <= Len(uniquePermits)
  /\ lastResult' = NoResult
  /\ attempt' = 0
  /\ at' = "retry"
  /\ csvs' = << >>
  /\ UNCHANGED <<cmd, allPermits, comments, uniquePermits, loopI, capturedPdf, inflight,
                 downloaded, skipped, failed, log, report>>
  /\ UNCHANGED xvars

\* One pass of the retry loop up to the search: processPermit is called, and
\* returns at once when the file exists and --force is not given.
ProcessPermit ==
  /\ at = "retry"
  /\ RetryCondition(attempt, cmd.maxRetries)
  /\ LET Said == (IF attempt > 0 THEN <<Ev("Retry", Permit)>> ELSE << >>)
                  \o <<Ev("Processing", Permit)>>
     IN IF ~cmd.force /\ pdfExists(comments, Permit)
        THEN /\ log' = log \o Said \o <<Ev("Skipped", Permit)>>
             /\ lastResult' = [success |-> TRUE, skipped |-> TRUE, failReason |-> JsNull]
             /\ at' = "push"
        ELSE /\ log' = log \o Said
             /\ at' = "search"
             /\ UNCHANGED lastResult
  /\ UNCHANGED <<cmd, allPermits, csvs, comments, uniquePermits, loopI, attempt, capturedPdf,
                 inflight, downloaded, skipped, failed, report>>
  /\ UNCHANGED xvars

\* page.waitForTimeout(1000) before a retry throws: catch (error).
RetryWaitFails ==
  /\ at = "retry"
  /\ attempt > 0
  /\ RetryCondition(attempt, cmd.maxRetries)
  /\ log' = log \o <<Ev("Retry", Permit), Ev("Unexpected error", Permit)>>
  /\ lastResult' = Failure(Str(<<"unexpected error">>))
  /\ at' = "push"
  /\ UNCHANGED <<cmd, allPermits, csvs, comments, uniquePermits, loopI, attempt, capturedPdf,
                 inflight, downloaded, skipped, failed, report>>
  /\ UNCHANGED xvars

\* attempt <= maxRetries is false: the retry loop ends.
RetriesExhausted ==
  /\ at = "retry"
  /\ ~RetryCondition(attempt, cmd.maxRetries)
  /\ at' = "push"
  /\ UNCHANGED <<cmd, allPermits, csvs, comments, uniquePermits, loopI, attempt, lastResult,
                 capturedPdf, inflight, downloaded, skipped, failed, log, report>>
  /\ UNCHANGED xvars

\* searchPermit: the number is searched; the detail page is reached or not.
SearchPermit ==
  /\ at = "search"
  /\ log' = Append(log, Ev("search", Permit))
  /\ \E found \in BOOLEAN :
       IF found
       THEN /\ at' = "detail"
            /\ UNCHANGED <<lastResult, attempt>>
       ELSE /\ lastResult' = Failure(Str(<<"not found in search">>))
            /\ attempt' = attempt + 1
            /\ at' = "retry"
  /\ UNCHANGED <<cmd, allPermits, csvs, comments, uniquePermits, loopI, capturedPdf, inflight,
                 downloaded, skipped, failed, report>>
  /\ UNCHANGED xvars

\* downloadComments: the button is not visible.
NoButton ==
  /\ at = "detail"
  /\ lastResult' = Failure(Str(<<"no View Conditions/Comments button">>))
  /\ attempt' = attempt + 1
  /\ at' = "retry"
  /\ UNCHANGED <<cmd, allPermits, csvs, comments, uniquePermits, loopI, capturedPdf, inflight,
                 downloaded, skipped, failed, log, report>>
  /\ UNCHANGED xvars

\* downloadComments: capturedPdf = null, then the click.  The popup it opens
\* requests the document (a PDF, or something the interceptor does not keep)
\* or requests nothing.
ClickConditions ==
  /\ at = "detail"
  /\ capturedPdf' = JsNull
  /\ log' = Append(log, Ev("click", Permit))
  /\ \E rs \in {{}, {Permit}} : inflight' = inflight \cup rs
  /\ at' = "popup"
  /\ UNCHANGED <<cmd, allPermits, csvs, comments, uniquePermits, loopI, attempt, lastResult,
                 downloaded, skipped, failed, report>>
  /\ UNCHANGED xvars

\* The callback of context.route for one request: a response that is a PDF
\* of more than 1000 bytes is stored, any other leaves the store as it is.
\* It runs whenever main waits, for a request of any popup of the context.
RouteIntercept ==
  /\ at \in {"for", "retry", "search", "detail", "popup", "delay"}
  /\ \E r \in inflight, pdf \in BOOLEAN :
       /\ inflight' = inflight \ {r}
       /\ capturedPdf' = IF pdf THEN Body(r) ELSE capturedPdf
  /\ UNCHANGED <<cmd, allPermits, csvs, comments, at, uniquePermits, loopI, attempt, lastResult,
                 downloaded, skipped, failed, log, report>>
  /\ UNCHANGED xvars

\* downloadComments after the waits (load state, 3000 ms; a wait that times
\* out is caught): the popup is closed, and the store is written to the
\* file when it holds something.
ClosePopup ==
  /\ at = "popup"
  /\ IF ~IsNull(capturedPdf)
     THEN /\ comments' = [comments EXCEPT ![Permit] = capturedPdf]
          /\ log' = Append(log, Ev("Saved", Permit))
          /\ lastResult' = [success |-> TRUE, skipped |-> FALSE, failReason |-> JsNull]
          /\ at' = "push"
          /\ UNCHANGED attempt
     ELSE /\ lastResult' = Failure(Str(<<"no View Conditions/Comments button">>))
          /\ attempt' = attempt + 1
          /\ at' = "retry"
          /\ UNCHANGED <<comments, log>>
  /\ UNCHANGED <<cmd, allPermits, csvs, uniquePermits, loopI, capturedPdf, inflight,
                 downloaded, skipped, failed, report>>
  /\ UNCHANGED xvars

\* context.waitForEvent("page") times out: catch (error), return false.
PopupTimeout ==
  /\ at = "popup"
  /\ lastResult' = Failure(Str(<<"no View Conditions/Comments button">>))
  /\ attempt' = attempt + 1
  /\ at' = "retry"
  /\ UNCHANGED <<cmd, allPermits, csvs, comments, uniquePermits, loopI, capturedPdf, inflight,
                 downloaded, skipped, failed, log, report>>
  /\ UNCHANGED xvars

\* After the retry loop: the permit goes to one list.
PushResult ==
  /\ at = "push"
  /\ IF lastResult.skipped
     THEN /\ skipped' = Append(skipped, Permit)
          /\ UNCHANGED <<downloaded, failed>>
     ELSE IF lastResult.success
     THEN /\ downloaded' = Append(downloaded, Permit)
          /\ UNCHANGED <<skipped, failed>>
     ELSE /\ failed' = Append(failed,
                         [permit |-> Permit,
                          reason |-> IF IsNull(lastResult.failReason) THEN Str(<<"unknown">>)
                                     ELSE lastResult.failReason])
          /\ UNCHANGED <<skipped, downloaded>>
  /\ loopI' = loopI + 1
  /\ at' = IF loopI < Len(uniquePermits) /\ ~lastResult.skipped THEN "delay" ELSE "for"
  /\ UNCHANGED <<cmd, allPermits, csvs, comments, uniquePermits, attempt, lastResult, capturedPdf,
                 inflight, log, report>>
  /\ UNCHANGED xvars

\* await page.waitForTimeout(delay) between two permits.
Delay ==
  /\ at = "delay"
  /\ at' = "for"
  /\ UNCHANGED <<cmd, allPermits, csvs, comments, uniquePermits, loopI, attempt, lastResult,
                 capturedPdf, inflight, downloaded, skipped, failed, log, report>>
  /\ UNCHANGED xvars

\* The same wait throws, outside the try: main is rejected.
DelayFails ==
  /\ at = "delay"
  /\ at' = "rejected"
  /\ UNCHANGED <<cmd, allPermits, csvs, comments, uniquePermits, loopI, attempt, lastResult,
                 capturedPdf, inflight, downloaded, skipped, failed, log, report>>
  /\ UNCHANGED xvars

\* The loop has ended: browser.close(), the summary and the report.
Summary ==
  /\ at = "for"
  /\ loopI > Len(uniquePermits)
  /\ report' = [total |-> Len(uniquePermits), downloaded |-> Len(downloaded),
                skipped |-> Len(skipped), failed |-> Len(failed)]
  /\ at' = "done"
  /\ csvs' = << >>
  /\ UNCHANGED <<cmd, allPermits, comments, uniquePermits, loopI, attempt, lastResult,
                 capturedPdf, inflight, downloaded, skipped, failed, log>>
  /\ UNCHANGED xvars

NextDownload ==
  \/ CollectPermits
  \/ NextPermit
  \/ ProcessPermit
  \/ RetryWaitFails
  \/ RetriesExhausted
  \/ SearchPermit
  \/ NoButton
  \/ ClickConditions
  \/ RouteIntercept
  \/ ClosePopup
  \/ PopupTimeout
  \/ PushResult
  \/ Delay
  \/ DelayFails
  \/ Summary

\* ------------------------------------------------------------------------
\* Initial states
\* ------------------------------------------------------------------------
FileNames ==
  { <<"P", "B", "1", ".", "t", "x", "t">>,
    <<"P", "B", "1", "0", ".", "t", "x", "t">>,
    <<"P", "B", "2", ".", "t", "x", "t">>,
    <<"P", "B", "2", ".", "p", "d", "f">> }

\* The directory listings: the entries in any order, none twice.
Listings(max) ==
  { l \in UNION { [1 .. m -> FileNames] : m \in 0 .. max } :
      \A i, j \in 1 .. Len(l) : i # j => l[i] # l[j] }

TxtPaths(l) == { pathJoin(InputDir, l[i]) : i \in { j \in 1 .. Len(l) : endsWithTxt(l[j]) } }

Digits55 == <<"5", "5">>
FullDoc ==
  << Chunk("Application", <<"P", "B", "2", "4", "-", "0", "1">>),
     Chunk("Address", <<"1", " ", "M", "A", "I", "N">>),
     Fixed("RequiredCorrections"),
     Chunk("Dept", <<"W", "a", "t", "e", "r">>),
     Chunk("Item", <<"1", ".", " ", "f", "i", "x">>),
     Fixed("ApprovalTable"),
     Fixed("TaskHeader"),
     Chunk("TaskRow", <<" ", " ", "1", "/", "2", "/", "2", "0", "2", "4", " ", "B">>),
     Fixed("ZoningPlansExam"),
     Chunk("LotCoverage", Digits55),
     Chunk("ParenProvided", <<" ", "1", "9", "%">>) >>
JunkDoc == << Chunk("Text", <<"h", "i">>) >>
EmptyDoc == << >>
DriverDocs == {FullDoc, JunkDoc, EmptyDoc}

FileStates(docs) == [readable : BOOLEAN, text : docs]

\* The downloader is not run.
NoDownload ==
  /\ cmd = JsNull /\ csvs = << >> /\ allPermits = << >> /\ comments = << >> /\ at = "off"
  /\ uniquePermits = << >> /\ loopI = 1 /\ attempt = 0 /\ lastResult = JsNull
  /\ capturedPdf = JsNull /\ inflight = {} /\ downloaded = << >>
  /\ skipped = << >> /\ failed = << >> /\ log = << >> /\ report = JsNull

InitCommon ==
  /\ NoDownload
  /\ pc = "start"
  /\ files = << >>
  /\ idx = 1
  /\ permits = << >>
  /\ sources = << >>
  /\ successCount = 0
  /\ errorCount = 0
  /\ tally = JsNull
  /\ output = JsNull

\* The whole directory, or one file named on the command line.
InitDirectory(max, docs) ==
  /\ opts \in [single : {JsNull}, includeRaw : BOOLEAN, format : {"json", "csv"}]
  /\ listing \in {JsNull} \cup {Arr(l) : l \in Listings(max)}
  /\ fsys \in IF IsNull(listing) THEN {<< >>}
              ELSE [TxtPaths(listing.arr) -> FileStates(docs)]
  /\ InitCommon

InitSingle(docs) ==
  /\ opts \in [single : {Str(pathJoin(InputDir, f)) : f \in FileNames},
               includeRaw : {FALSE}, format : {"json"}]
  /\ listing = JsNull
  /\ fsys \in {<< >>} \cup [{opts.single.str} -> FileStates(docs)]
  /\ InitCommon

Init == InitDirectory(MaxFiles, DriverDocs) \/ InitSingle({FullDoc})

Spec == Init /\ [][Next]_vars

\* One readable file in the directory, its text drawn from docs.
OneFile == <<"P", "B", "1", ".", "t", "x", "t">>
InitDocsOpt(docs, raws, formats) ==
  /\ opts \in [single : {JsNull}, includeRaw : raws, format : formats]
  /\ listing = Arr(<<OneFile>>)
  /\ fsys \in [{pathJoin(InputDir, OneFile)} -> [readable : {TRUE}, text : docs]]
  /\ InitCommon
InitDocsIn(docs, formats) == InitDocsOpt(docs, {FALSE}, formats)
InitDocs(docs) == InitDocsIn(docs, {"json"})

\* All sequences of at most max elements of S.
SeqUpTo(S, max) == UNION { [1 .. m -> S] : m \in 0 .. max }

\* Concatenation of a sequence of sequences.
RECURSIVE Flatten(_)
Flatten(ss) == IF ss = << >> THEN << >> ELSE Head(ss) \o Flatten(Tail(ss))

\* ---- zoning documents: with or without the anchor, then any chunks ----
ZoningChunks ==
  { Chunk("LotCoverage", Digits55),
    Chunk("Height", <<"3", "5">>),
    Chunk("LotWidth", <<"5", "0">>),
    Chunk("DrivewayCoverage", <<"4", "0">>),
    Chunk("Front", <<"2", "0">>),
    Chunk("Sides", <<"5">>),
    Chunk("Rear", <<"5">>),
    Chunk("ParenProvided", <<" ", "1", "9", "%">>),
    Chunk("ParenProvided", <<" ", "2", "6", "'", " ", "8", "\"">>),
    Chunk("ParenProvided", <<" ", "8", "'", " ", "&", " ", "6", "'">>),
    Chunk("ColonValue", <<" ", "3", "5", ".", "5", "0", "%">>),
    Chunk("ColonValue", <<" ", ".">>),
    Chunk("Left", <<":", " ", "1", "0", "'", " ", "/", " ", "R", "i", "g", "h", "t", " ", "9", "'">>) }

ZoningDocs ==
  { pre \o body : pre \in {<< >>, <<Fixed("ZoningPlansExam")>>},
                  body \in SeqUpTo(ZoningChunks, MaxZoningLen) }

InitZoning == InitDocs(ZoningDocs) \/ InitSingle({FullDoc}) \/ InitDirectory(0, {EmptyDoc})

SpecZoning == InitZoning /\ [][Next]_vars

\* ---- section documents: up to MaxSections segments ----
SectionSegments ==
  { << Fixed("BuildingClassification"), Fixed("OccHeader"),
       Chunk("ClassRow", <<"1", "6", "0", "4">>) >>,
    << Fixed("Sprinkler") >>,
    << Fixed("RequiredCorrections"), Chunk("Dept", <<"W", "a", "t", "e", "r">>),
       Chunk("Item", <<"1", ".", " ", "f", "i", "x">>) >>,
    << Fixed("RequiredCorrections") >>,
    << Fixed("ApprovalTable"), Fixed("TaskHeader"),
       Chunk("TaskRow", <<" ", " ", "1", "/", "2", "/", "2", "0", "2", "4", " ", "B">>) >>,
    << Fixed("ApprovalTable") >>,
    << Fixed("GeneralComments") >>,
    << Fixed("ZoningPlansExam"), Chunk("Rear", <<"5">>) >>,
    << Fixed("EndZoning") >>,
    << Fixed("InformationBlock"), Chunk("ReviewedBy", <<"A", "l">>) >>,
    << Fixed("BuildingHeading") >>,
    << Fixed("PlanningDept") >> }

SectionDocs == { Flatten(ss) : ss \in SeqUpTo(SectionSegments, MaxSections) }

InitSections == InitDocs(SectionDocs) \/ InitSingle({FullDoc}) \/ InitDirectory(0, {EmptyDoc})

SpecSections == InitSections /\ [][Next]_vars

\* ---- corrections documents: department blocks of numbered items ----
Water == <<"W", "a", "t", "e", "r">>
Zoning == <<"Z", "o", "n", "i", "n", "g">>
CorrectionLines ==
  { Chunk("Item", <<"1", ".", " ", "f", "i", "x">>),
    Chunk("Item", <<"2", ".", " ", "0", "8", "/", "1", "5", "/", "2", "5", " ", "-", " ", "m", "v">>),
    Chunk("Text", <<"n", "o", "t", "e">>) }

\* A department header followed by at most MaxItems lines.
DeptBlocks ==
  { <<Chunk("Dept", d)>> \o ls : d \in {Water, Zoning}, ls \in SeqUpTo(CorrectionLines, MaxItems) }

\* Names in other cases of the letters, and names that contain a flagged
\* name without being one.
OtherDepts ==
  { <<"W", "A", "T", "E", "R">>, <<"P", "A", "R", "D">>, <<"z", "o", "n", "i", "n", "g">>,
    <<"S", "t", "o", "r", "m", "w", "a", "t", "e", "r">>, <<"P", "a", "r", "d", " ", "F">> }

\* A department header followed by at most one line.
ShortBlocks ==
  { <<Chunk("Dept", d)>> \o ls : d \in {Water, Zoning}, ls \in SeqUpTo(CorrectionLines, 1) }

\* At most MaxBlocks blocks, the first of them with up to MaxItems lines.
CorrectionDocs ==
  { <<Fixed("RequiredCorrections")>> \o b \o Flatten(bs) \o <<Fixed("ApprovalTable")>> :
      b \in DeptBlocks \cup {<< >>}, bs \in SeqUpTo(ShortBlocks, MaxBlocks - 1) }
  \cup { <<Fixed("RequiredCorrections"), Chunk("Dept", d)>> \o ls
           \o <<Chunk("Dept", e), Chunk("Item", <<"3", ".", " ", "f", "i", "x">>),
                Fixed("ApprovalTable")>> :
           d \in OtherDepts, e \in OtherDepts \cup {Water}, ls \in SeqUpTo(CorrectionLines, 2) }

InitCorrections ==
  \/ InitDocsIn(CorrectionDocs, {"json", "csv"})
  \/ InitSingle({FullDoc})
  \/ InitDirectory(0, {EmptyDoc})

SpecCorrections == InitCorrections /\ [][Next]_vars

\* ---- third-party documents: markers before, inside and after the block ----
ThirdPartyLines ==
  { Chunk("PlanReviewDate", <<"1", "/", "2", "/", "2", "0", "2", "4">>),
    Chunk("PlanReviewDate", <<"s", "o", "o", "n">>),
    Chunk("ReviewedBy", <<"A", "l">>),
    Chunk("ReviewedBy", << >>),
    Chunk("Tenant", <<"A", "c", "m", "e">>),
    Fixed("NtisprosCom"),
    Fixed("MetroCode") }

ThirdPartyDocs ==
  { pre \o info \o body \o term \o post :
      pre \in {<< >>, <<Fixed("NorthTexas")>>, <<Fixed("MetroCodeCom")>>},
      info \in {<< >>, <<Fixed("InformationBlock")>>},
      body \in SeqUpTo(ThirdPartyLines, MaxFields),
      term \in {<< >>, <<Fixed("BuildingHeading")>>},
      post \in {<< >>, <<Fixed("MetroCode")>>, <<Fixed("NtisprosCom")>>} }

InitThirdParty ==
  \/ InitDocs(ThirdPartyDocs)
  \/ InitSingle({FullDoc})
  \/ InitDirectory(0, {EmptyDoc})

SpecThirdParty == InitThirdParty /\ [][Next]_vars

\* ---- approval tables: rows with and without a date and a reviewer ----
ApprovalLines ==
  { Chunk("TaskRow", << >>),
    Chunk("TaskRow", <<" ">>),
    Chunk("TaskRow", <<" ", "B", "o", "b">>),
    Chunk("TaskRow", <<" ", " ", "1", "/", "2", "/", "2", "0", "2", "4">>),
    Chunk("TaskRow", <<" ", " ", "1", "/", "2", "/", "2", "0", "2", "4", " ", "B">>),
    Chunk("Text", <<"n", "o", "t", "e">>) }

ApprovalDocs ==
  { <<Fixed("ApprovalTable"), Fixed("TaskHeader")>> \o rows \o term :
      rows \in SeqUpTo(ApprovalLines, MaxRows),
      term \in {<< >>, <<Fixed("GeneralComments")>>} }

InitApproval ==
  \/ InitDocs(ApprovalDocs)
  \/ InitSingle({FullDoc})
  \/ InitDirectory(0, {EmptyDoc})

SpecApproval == InitApproval /\ [][Next]_vars

\* ---- side setbacks: one minimum, one or two provided values ----
SideChunks ==
  { Chunk("Sides", <<"5">>),
    Chunk("Sides", <<"1", "0">>),
    Chunk("ParenProvided", <<" ", "8", "'", " ", "3", "\"", " ", "&", " ", "6", "'">>),
    Chunk("ParenProvided", <<" ", "'", " ", "&", " ", "6", "'">>),
    Chunk("ParenProvided", <<" ", "8", "'", ",", " ", ".">>),
    Chunk("ParenProvided", <<" ", "2", "6", "'">>),
    Chunk("Left", <<":", " ", "1", "0", "'", " ", "/", " ", "R", "i", "g", "h", "t", " ", "9", "'">>),
    Chunk("Rear", <<"5">>) }

SideDocs ==
  { pre \o body : pre \in {<< >>, <<Fixed("ZoningPlansExam")>>},
                  body \in SeqUpTo(SideChunks, MaxSideLen) }

InitSides ==
  \/ InitDocs(SideDocs)
  \/ InitSingle({FullDoc})
  \/ InitDirectory(0, {EmptyDoc})

SpecSides == InitSides /\ [][Next]_vars

\* ---- dates: a submission date and a dated correction item ----
DateTexts ==
  { mo \o sep \o da \o sep \o yr :
      mo \in {<<"3">>, <<"0", "3">>, <<"1", "2">>},
      da \in {<<"4">>, <<"1", "4">>},
      yr \in {<<"2", "0", "2", "4">>, <<"2", "4">>, <<"0", "2", "4">>,
              <<"2", "0", "2", "4", "5">>},
      sep \in {<<"/">>, <<"-">>} }
  \cup { << >>, <<"s", "o", "o", "n">>, <<"2", "0", "2", "4", "-", "0", "3", "-", "0", "4">> }

DateDocs ==
  { <<Chunk("DateSubmitted", v)>> : v \in DateTexts }
  \cup { <<Chunk("DateSubmitted", v), Fixed("RequiredCorrections"), Chunk("Dept", Water),
           Chunk("Item", <<"1", ".", " ">> \o w \o <<" ", "-", " ", "m", "v">>),
           Fixed("ApprovalTable")>> : v \in DateTexts, w \in DateTexts }

InitDates ==
  \/ InitDocs(DateDocs)
  \/ InitSingle({FullDoc})
  \/ InitDirectory(0, {EmptyDoc})

SpecDates == InitDates /\ [][Next]_vars

\* ---- feet and inches: a front setback with its provided value ----
FeetTexts ==
  { f \o <<"'", " ">> \o i \o <<"\"">> :
      f \in {<<"2", "6">>, <<"8">>, <<"2", "0">>},
      i \in {<<"0">>, <<"3">>, <<"8">>, <<"1", "1">>} }
  \cup { f \o q :
           f \in {<<"2", "6">>, <<"8">>, <<"2", "0", ".", "5">>, <<"2", "0", ".", "5", "0">>,
                  <<"1", "0", ".", "0", "4">>, <<"1", "0", ".", "0", "4", "6">>},
           q \in {<< >>, <<"'">>} }

FeetDocs ==
  { <<Fixed("ZoningPlansExam"), Chunk("Front", m), Chunk("ParenProvided", <<" ">> \o v)>> :
      m \in {<<"2", "0">>, <<"2", "5">>}, v \in FeetTexts }
  \cup { <<Fixed("ZoningPlansExam"), Chunk("Rear", m), Chunk("ParenProvided", <<" ">> \o v)>> :
           m \in {<<"5">>}, v \in FeetTexts }

InitFeet ==
  \/ InitDocs(FeetDocs)
  \/ InitSingle({FullDoc})
  \/ InitDirectory(0, {EmptyDoc})

SpecFeet == InitFeet /\ [][Next]_vars

\* ---- whole documents: each section present or not, with and without ----
\* ---- quotes, backslashes and tabs in the text                        ----
JsonDocs ==
  { pre \o head \o bc \o corr \o appr \o zon \o tp :
      pre \in { << >>, <<Chunk("Text", <<"p", "\t", "\\", "q">>)>> },
      head \in { << >>,
                 <<Chunk("Application", <<"P", "B", "1">>),
                   Chunk("Address", <<"1", " ", "\"", "A", "\"", " ", "\\", "B">>)>>,
                 <<Chunk("Application", <<"P", "B", "1">>),
                   Chunk("DateSubmitted", <<"3", "/", "4", "/", "2", "0", "2", "4">>)>> },
      bc \in { << >>,
               <<Fixed("BuildingClassification"), Fixed("OccHeader"),
                 Chunk("ClassRow", <<"2", "5", "0", "0">>)>> },
      corr \in { << >>,
                 <<Fixed("RequiredCorrections"), Chunk("Dept", Water),
                   Chunk("Item", <<"1", ".", " ", "6", "\"", " ", "x", "\\", "y">>),
                   Chunk("Item", <<"1", "2", ".", " ", "0", "8", "/", "1", "5", "/", "2", "5",
                                   " ", "-", " ", "m", "v">>)>> },
      appr \in { << >>,
                 <<Fixed("ApprovalTable"), Fixed("TaskHeader"), Chunk("TaskRow", << >>)>>,
                 <<Fixed("ApprovalTable"), Fixed("TaskHeader"),
                   Chunk("TaskRow", <<" ", " ", "1", "/", "2", "/", "2", "0", "2", "4", " ", "B">>)>> },
      zon \in { << >>,
                <<Fixed("ZoningPlansExam"), Chunk("Front", <<"2", "0">>),
                  Chunk("ParenProvided", <<" ", "2", "6", "'", " ", "8", "\"">>)>>,
                <<Fixed("ZoningPlansExam"), Chunk("LotCoverage", Digits55),
                  Chunk("ParenProvided", <<" ", "1", "9", "%">>), Chunk("Rear", <<"5">>),
                  Chunk("ParenProvided", <<" ", "1", "0", ".", "5">>)>> },
      tp \in { << >>,
               <<Fixed("InformationBlock"), Chunk("ReviewedBy", <<"A", "l">>),
                 Fixed("MetroCode")>> } }

InitJson ==
  \/ InitDocsOpt(JsonDocs, BOOLEAN, {"json"})
  \/ InitSingle({FullDoc})
  \/ InitDirectory(0, {EmptyDoc})

SpecJson == InitJson /\ [][Next]_vars

\* ---- the downloader: CSV files, the comments directory, the options ----
PB1 == <<"P", "B", "1">>
PB2 == <<"P", "B", "2">>
CsvNumbers == { PB1, PB2, <<"P", "T", "M", "P", "3">>, << >>, <<" ">> }

\* At most MaxCsvRows rows, in one file or with the first row in a file of
\* its own.
CsvFiles ==
  { <<rows>> : rows \in SeqUpTo(CsvNumbers, MaxCsvRows) }
  \cup { <<SubSeq(rows, 1, 1), SubSeq(rows, 2, Len(rows))>> :
           rows \in SeqUpTo(CsvNumbers, MaxCsvRows) \ {<< >>} }

\* The extraction is not run.
NoExtraction ==
  /\ opts = JsNull /\ listing = JsNull /\ fsys = << >> /\ pc = "off"
  /\ files = << >> /\ idx = 1 /\ permits = << >> /\ sources = << >>
  /\ successCount = 0 /\ errorCount = 0 /\ tally = JsNull /\ output = JsNull

InitDownload ==
  /\ NoExtraction
  /\ cmd \in [force : BOOLEAN, maxRetries : 0 .. MaxRetries]
  /\ csvs \in CsvFiles
  /\ allPermits = << >>
  /\ comments \in { [n \in CsvNumbers |-> IF n \in S THEN OldPdf(n) ELSE JsNull] :
                      S \in SUBSET {PB1} }
  /\ at = "start"
  /\ uniquePermits = << >>
  /\ loopI = 1
  /\ attempt = 0
  /\ lastResult = NoResult
  /\ capturedPdf = JsNull
  /\ inflight = {}
  /\ downloaded = << >>
  /\ skipped = << >>
  /\ failed = << >>
  /\ log = << >>
  /\ report = JsNull

SpecDownload == InitDownload /\ [][NextDownload]_vars

\* ------------------------------------------------------------------------
\* Properties
\* ------------------------------------------------------------------------
\* The text the i-th record was parsed from, and the files already handled.
TextOf(i) == fsys[sources[i]].text
Handled == 1 .. (idx - 1)
HasKind(content, kind) == \E j \in 1 .. Len(content) : content[j].k = kind

\* The DimensionalValue-typed fields of a zoning review.
DimFields(z) ==
  << z.lot_coverage, z.height, z.lot_width, z.driveway_coverage,
     z.setbacks.front, z.setbacks.side_left, z.setbacks.side_right,
     z.setbacks.rear >>

\* C1: in every record, each DimensionalValue-typed field of the zoning
\* review is null or has a non-null maximum or a non-null provided value;
\* {maximum: null, provided: null} never appears.
C1_DimensionalValueNeverEmpty ==
  \A i \in 1 .. Len(permits) :
    LET z == permits[i].zoning_review
    IN ~IsNull(z) =>
         \A k \in 1 .. 8 :
           LET d == DimFields(z)[k]
           IN IsNull(d) \/ ~IsNull(d.maximum) \/ ~IsNull(d.provided)

\* A zoning review with one field absent and another with only its maximum.
C1_Witness ==
  \E i \in 1 .. Len(permits) :
    LET z == permits[i].zoning_review
    IN /\ ~IsNull(z)
       /\ IsNull(z.lot_coverage)
       /\ ~IsNull(z.setbacks.rear)
       /\ ~IsNull(z.setbacks.rear.maximum)
       /\ IsNull(z.setbacks.rear.provided)

SetbacksEmpty(sb) ==
  IsNull(sb.front) /\ IsNull(sb.side_left) /\ IsNull(sb.side_right) /\ IsNull(sb.rear)
ParkingEmpty(pk) == IsNull(pk.bedrooms) /\ IsNull(pk.required) /\ IsNull(pk.provided)
ZoningEmpty(z) ==
  /\ IsNull(z.zoning_district) /\ IsNull(z.plat_name) /\ IsNull(z.plat_number)
  /\ IsNull(z.slab_sf) /\ IsNull(z.lot_area_sf) /\ IsNull(z.lot_coverage)
  /\ IsNull(z.height) /\ IsNull(z.lot_width) /\ IsNull(z.driveway_coverage)
  /\ (IsNull(z.setbacks) \/ SetbacksEmpty(z.setbacks))
  /\ (IsNull(z.parking) \/ ParkingEmpty(z.parking))
  /\ IsNull(z.ufc_permit)
ThirdPartyEmpty(t) ==
  /\ IsNull(t.company) /\ IsNull(t.plan_review_date)
  /\ IsNull(t.reviewed_by) /\ IsNull(t.tenant_builder)

\* C2: in every record, zoning_review, its setbacks, its parking and
\* third_party_review are null whenever none of their child fields was
\* recovered: no such entity is present with all its children null.
C2_NoParentOfNulls ==
  \A i \in 1 .. Len(permits) :
    LET z == permits[i].zoning_review
        t == permits[i].third_party_review
    IN /\ ~IsNull(z) =>
            /\ ~ZoningEmpty(z)
            /\ IsNull(z.setbacks) \/ ~SetbacksEmpty(z.setbacks)
            /\ IsNull(z.parking) \/ ~ParkingEmpty(z.parking)
       /\ ~IsNull(t) => ~ThirdPartyEmpty(t)

\* C3: a readable document without the "Zoning Plans Exam" anchor gives a
\* record, and the zoning_review of that record is null.
C3_NoAnchorNoZoningReview ==
  /\ \A i \in 1 .. Len(permits) :
       ~HasKind(TextOf(i), "ZoningPlansExam") => IsNull(permits[i].zoning_review)
  /\ \A j \in Handled :
       (fsys[files[j]].readable /\ ~HasKind(fsys[files[j]].text, "ZoningPlansExam"))
         => \E i \in 1 .. Len(permits) : sources[i] = files[j]

\* A record of a text that has zoning lines but not the anchor.
C3_Witness ==
  \E i \in 1 .. Len(permits) :
    /\ ~HasKind(TextOf(i), "ZoningPlansExam")
    /\ HasKind(TextOf(i), "Rear")
    /\ IsNull(permits[i].zoning_review)
    /\ permits[i].corrections = Arr(<< >>)

\* C4: every readable file with a non-empty text gives a record, counted as
\* a success and written to the output, also when neither a permit number
\* nor an address was found.
C4_NoValidityGate ==
  /\ \A j \in Handled :
       (fsys[files[j]].readable /\ fsys[files[j]].text # << >>)
         => \E i \in 1 .. Len(permits) :
              /\ sources[i] = files[j]
              /\ i <= successCount
              /\ pc = "done" => output.records.arr[i] = permits[i]
  /\ pc = "done" => Len(output.records.arr) = Len(permits)

\* The run is over and wrote a record without number and without address.
C4_Witness ==
  /\ pc = "done"
  /\ \E i \in 1 .. Len(output.records.arr) :
       /\ TextOf(i) # << >>
       /\ output.records.arr[i].application.number = Str(<< >>)
       /\ output.records.arr[i].property.address = Str(<< >>)

Unreadable == {j \in 1 .. Len(files) : ~fsys[files[j]].readable}

\* C5: after the loop, successCount + errorCount is the number of files,
\* errorCount is the number of unreadable files, the records are as many as
\* successCount, every readable file has its record, and the tally printed
\* carries both counts.
C5_ErrorsCountedLoopContinues ==
  /\ pc \in {"loop", "output", "done"} =>
       /\ successCount + errorCount = idx - 1
       /\ errorCount = Cardinality(Unreadable \cap Handled)
       /\ Len(permits) = successCount
  /\ pc \in {"output", "done"} =>
       /\ successCount + errorCount = Len(files)
       /\ \A j \in 1 .. Len(files) :
            fsys[files[j]].readable => \E i \in 1 .. Len(permits) : sources[i] = files[j]
       /\ tally = [success |-> successCount, errors |-> errorCount]

\* An unreadable file was followed by a file that was read.
C5_Witness ==
  /\ pc = "done"
  /\ errorCount = 1
  /\ \E j \in 1 .. Len(files) :
       /\ ~fsys[files[j]].readable
       /\ j < Len(files)
       /\ \E i \in 1 .. Len(permits) : sources[i] = files[j + 1]

\* C6: the records are in ascending order of their file names, none twice,
\* each from a .txt file of the directory, and are written in that order.
C6_OutputSortedByFilename ==
  /\ \A i, j \in 1 .. Len(sources) : i < j => StrLess(sources[i], sources[j])
  /\ Len(sources) = Len(permits)
  /\ IsNull(opts.single) =>
       \A i \in 1 .. Len(sources) : sources[i] \in TxtPaths(listing.arr)
  /\ pc = "done" => output.records = Arr(permits)

\* Two records were written and the directory listed their files in
\* descending order.
C6_Witness ==
  /\ pc = "done"
  /\ Len(output.records.arr) = 2
  /\ IsNull(opts.single)
  /\ Len(listing.arr) = 2
  /\ StrLess(listing.arr[2], listing.arr[1])

\* The section anchors and the span each parser locates.
AnchorKinds ==
  << "BuildingClassification", "RequiredCorrections", "ApprovalTable",
     "ZoningPlansExam", "InformationBlock" >>
AnchorKindSet == { AnchorKinds[s] : s \in 1 .. 5 }
SectionSpans(content) ==
  << BuildingClassificationSpan(content), CorrectionsSpan(content),
     ApprovalTableSpan(content), ZoningSpan(content), ThirdPartySpan(content) >>

\* C7: for every section anchor in the document the section's span is
\* located, starts at the first such anchor and runs to the chunk before
\* the next section anchor, or to the end of the document when there is none.
C7_SpanRunsToNextAnchor ==
  \A i \in 1 .. Len(permits) :
    LET c == TextOf(i) IN
    \A s \in 1 .. 5 :
      HasKind(c, AnchorKinds[s]) =>
        LET sp == SectionSpans(c)[s]
            a == FirstKind(c, 1, {AnchorKinds[s]})
        IN /\ ~IsNull(sp)
           /\ sp.anchor = a
           /\ sp.to = FirstKind(c, a + 1, AnchorKindSet) - 1

\* C8: the located spans of a document do not overlap: a span whose anchor
\* comes later starts after the end of every span whose anchor comes first.
C8_SpansDoNotOverlap ==
  \A i \in 1 .. Len(permits) :
    LET sps == SectionSpans(TextOf(i)) IN
    \A s, t \in 1 .. 5 :
      (~IsNull(sps[s]) /\ ~IsNull(sps[t]) /\ sps[s].anchor < sps[t].anchor)
        => sps[s].to < sps[t].anchor

IsArr(x) == DOMAIN x = {"arr"}

\* C9: building_classification, corrections and approval_tasks are arrays in
\* every record, and empty when the section's anchor is not in the document.
C9_ListFieldsAreSequences ==
  \A i \in 1 .. Len(permits) :
    LET p == permits[i]
        c == TextOf(i)
    IN /\ IsArr(p.building_classification)
       /\ IsArr(p.corrections)
       /\ IsArr(p.approval_tasks)
       /\ ~HasKind(c, "BuildingClassification") => p.building_classification.arr = << >>
       /\ ~HasKind(c, "RequiredCorrections") => p.corrections.arr = << >>
       /\ ~HasKind(c, "ApprovalTable") => p.approval_tasks.arr = << >>

\* A record with approval tasks whose text has neither the corrections nor
\* the building classification anchor.
C9_Witness ==
  \E i \in 1 .. Len(permits) :
    /\ ~HasKind(TextOf(i), "RequiredCorrections")
    /\ ~HasKind(TextOf(i), "BuildingClassification")
    /\ permits[i].corrections = Arr(<< >>)
    /\ permits[i].building_classification = Arr(<< >>)
    /\ IsArr(permits[i].approval_tasks)
    /\ permits[i].approval_tasks.arr # << >>

\* The field the variants ms of a cascade give: null when none matches, else
\* both values from the first variant that matches (its groups g1 and g).
FromFirstMatch(ms, field, g, parse(_)) ==
  /\ (\A k \in 1 .. Len(ms) : IsNull(ms[k])) => IsNull(field)
  /\ \A k \in 1 .. Len(ms) :
       (~IsNull(ms[k]) /\ \A j \in 1 .. (k - 1) : IsNull(ms[j]))
         => field = [maximum |-> parse(ms[k].g1), provided |-> parse(ms[k][g])]

\* C10: each cascaded zoning field takes its maximum and its provided value
\* from the first variant, in priority order, that matches the zoning text,
\* whatever the later variants capture, and is null when no variant matches.
C10_FirstMatchingVariantWins ==
  \A i \in 1 .. Len(permits) :
    LET z == permits[i].zoning_review
        zc == ZoningContent(TextOf(i))
    IN ~IsNull(z) =>
         /\ FromFirstMatch(<<lotCovMatch1(zc), lotCovMatch2(zc), lotCovMatch3(zc)>>,
                           z.lot_coverage, "g2", parsePercent)
         /\ FromFirstMatch(<<heightMatch1(zc), heightMatch2(zc)>>,
                           z.height, "g2", parseFeet)
         /\ FromFirstMatch(<<lotWidthMatch1(zc), lotWidthMatch2(zc)>>,
                           z.lot_width, "g2", parseFeet)
         /\ FromFirstMatch(<<drivewayMatch1(zc), drivewayMatch2(zc)>>,
                           z.driveway_coverage, "g2", parsePercent)
         /\ FromFirstMatch(<<frontMatch1(zc), frontMatch2(zc)>>,
                           z.setbacks.front, "g2", parseFeet)
         /\ FromFirstMatch(<<sidesMatch1(zc), sidesMatch2(zc)>>,
                           z.setbacks.side_left, "g2", parseFeet)
         /\ FromFirstMatch(<<sidesMatch1(zc), sidesMatch2(zc)>>,
                           z.setbacks.side_right, "g3", parseFeet)
         /\ FromFirstMatch(<<rearMatch1(zc), rearMatch2(zc)>>,
                           z.setbacks.rear, "g2", parseFeet)

\* The first and the second lot coverage variant both match, with different
\* provided values, and the record has the first variant's.
C10_Witness ==
  \E i \in 1 .. Len(permits) :
    LET z == permits[i].zoning_review
        zc == ZoningContent(TextOf(i))
    IN /\ ~IsNull(z)
       /\ ~IsNull(lotCovMatch1(zc))
       /\ ~IsNull(lotCovMatch2(zc))
       /\ parsePercent(lotCovMatch1(zc).g2) # parsePercent(lotCovMatch2(zc).g2)
       /\ ~IsNull(z.lot_coverage)
       /\ z.lot_coverage.provided = parsePercent(lotCovMatch1(zc).g2)

\* ---- corrections ----
\* The chunks of the corrections section of a text, its department headers,
\* and the number printed at the start of an item line.
SectionOf(content) ==
  IF IsNull(CorrectionsSpan(content)) THEN << >>
  ELSE SpanText(content, CorrectionsSpan(content))
HeadersOf(cc) == {h \in 1 .. Len(cc) : cc[h].k = "Dept"}
Printed(c) == DigitsVal(Slice(c.v, 1, RunEnd(c.v, 1, Digits)))
ItemLines(cc, h) ==
  {j \in (h + 1) .. Len(cc) :
     /\ cc[j].k = "Item"
     /\ \A g \in HeadersOf(cc) : g <= h \/ g > j}
TotalItems(corr) ==
  LET RECURSIVE Sum(_)
      Sum(k) == IF k = 0 THEN 0 ELSE Len(corr[k].items.arr) + Sum(k - 1)
  IN Sum(Len(corr))

\* C11: in every record, the numbers of the items of each correction block
\* are strictly increasing in the order of the items.
C11_ItemNumbersIncrease ==
  \A i \in 1 .. Len(permits) :
    \A b \in 1 .. Len(permits[i].corrections.arr) :
      LET items == permits[i].corrections.arr[b].items.arr
      IN \A j \in 1 .. (Len(items) - 1) : items[j].number.num < items[j + 1].number.num

\* C12: a corrections section of k department headers gives k blocks in the
\* order of the headers, each under its header's name and holding, in order,
\* exactly the numbered items printed between its header and the next one.
C12_OneBlockPerDepartment ==
  \A i \in 1 .. Len(permits) :
    LET cc == SectionOf(TextOf(i))
        H == HeadersOf(cc)
        corr == permits[i].corrections.arr
    IN /\ Len(corr) = Cardinality(H)
       /\ \A h \in H :
            LET b == Cardinality({g \in H : g <= h})
                L == ItemLines(cc, h)
                items == corr[b].items.arr
            IN /\ corr[b].department = Str(cc[h].v)
               /\ Len(items) = Cardinality(L)
               /\ \A j \in L :
                    items[Cardinality({l \in L : l <= j})].number = Num(100 * Printed(cc[j]))

\* Two department blocks, of two items and of one: two blocks, three items,
\* and the second block's item is the one printed under the second header.
C12_Witness ==
  \E i \in 1 .. Len(permits) :
    LET cc == SectionOf(TextOf(i))
        corr == permits[i].corrections.arr
    IN /\ Cardinality(HeadersOf(cc)) = 2
       /\ \A h \in HeadersOf(cc) : Cardinality(ItemLines(cc, h)) \in {1, 2}
       /\ Len(corr) = 2
       /\ TotalItems(corr) = 3
       /\ Len(corr[1].items.arr) = 2
       /\ Len(corr[2].items.arr) = 1
       /\ corr[1].department = Str(Water)
       /\ corr[2].department = Str(Zoning)
       /\ corr[1].items.arr[1].number = Num(200)
       /\ corr[2].items.arr[1].number = Num(100)

\* Index of a column of the flat output, and a name equal to a lower-case
\* word but for the case of its letters.
Col(name) == CHOOSE c \in 1 .. Len(headers) : headers[c] = name
SameButCase(s, w) ==
  /\ Len(s) = Len(w)
  /\ \A k \in 1 .. Len(s) :
       \/ s[k] = w[k]
       \/ \E l \in 1 .. 26 : s[k] = UpperCase[l] /\ w[k] = LowerCase[l]
TrueFalse(b) == IF b THEN <<"t", "r", "u", "e">> ELSE <<"f", "a", "l", "s", "e">>

\* C13: in the flat output, the row of every record has correction_count
\* equal to the number of items of all its correction blocks, and
\* has_water_corrections, has_zoning_corrections and has_pard_corrections
\* true exactly when a block's department is "water", "zoning" or "pard" in
\* any case of the letters.
C13_FlatCorrectionColumns ==
  (pc = "done" /\ output.format = "csv") =>
    /\ Len(output.lines) = Len(permits) + 1
    /\ \A i \in 1 .. Len(permits) :
         LET row == output.lines[i + 1]
             corr == permits[i].corrections.arr
             Has(w) == \E b \in 1 .. Len(corr) : SameButCase(corr[b].department.str, w)
         IN /\ row[Col("correction_count")] = NatText(TotalItems(corr))
            /\ row[Col("has_water_corrections")] = TrueFalse(Has(<<"w", "a", "t", "e", "r">>))
            /\ row[Col("has_zoning_corrections")] = TrueFalse(Has(<<"z", "o", "n", "i", "n", "g">>))
            /\ row[Col("has_pard_corrections")] = TrueFalse(Has(<<"p", "a", "r", "d">>))

\* The flat row of a record with two items under "WATER" and one under
\* "Stormwater": three corrections, of water and of no other department.
C13_Witness ==
  /\ pc = "done"
  /\ output.format = "csv"
  /\ \E i \in 1 .. Len(permits) :
       LET row == output.lines[i + 1]
           corr == permits[i].corrections.arr
       IN /\ Len(corr) = 2
          /\ corr[1].department = Str(<<"W", "A", "T", "E", "R">>)
          /\ Len(corr[1].items.arr) = 2
          /\ corr[2].department = Str(<<"S", "t", "o", "r", "m", "w", "a", "t", "e", "r">>)
          /\ row[Col("correction_count")] = <<"3">>
          /\ row[Col("has_water_corrections")] = <<"t", "r", "u", "e">>
          /\ row[Col("has_zoning_corrections")] = <<"f", "a", "l", "s", "e">>
          /\ row[Col("has_pard_corrections")] = <<"f", "a", "l", "s", "e">>

\* ---- third-party review ----
MetroMarkers == {"MetroCode", "MetroCodeCom"}
NorthTexasMarkers == {"NorthTexas", "NtisprosCom"}
HasMarker(content, K) == \E j \in 1 .. Len(content) : content[j].k \in K
FieldKinds == {"PlanReviewDate", "ReviewedBy", "Tenant"}

\* C14: third_party_review is non-null only for a document with an
\* "INFORMATION BLOCK" section that has a field line, and a non-null
\* third_party_review has a non-null plan_review_date, reviewed_by or
\* tenant_builder; brand markers alone give null.
C14_ThirdPartyNeedsAField ==
  \A i \in 1 .. Len(permits) :
    LET t == permits[i].third_party_review
        c == TextOf(i)
    IN /\ ~IsNull(t) =>
            /\ HasKind(c, "InformationBlock")
            /\ HasMarker(c, FieldKinds)
            /\ ~IsNull(t.plan_review_date) \/ ~IsNull(t.reviewed_by) \/ ~IsNull(t.tenant_builder)
       /\ ~HasMarker(c, FieldKinds) => IsNull(t)

\* C15: the company of a third_party_review is Metro Code Analysis when a
\* Metro Code marker is anywhere in the document, else North Texas
\* Inspection Services when a North Texas marker is anywhere in it, else
\* null.
C15_CompanyFromWholeDocument ==
  \A i \in 1 .. Len(permits) :
    LET t == permits[i].third_party_review
        c == TextOf(i)
    IN ~IsNull(t) =>
         /\ HasMarker(c, MetroMarkers) => t.company = Str(<<"Metro Code Analysis">>)
         /\ (~HasMarker(c, MetroMarkers) /\ HasMarker(c, NorthTexasMarkers))
              => t.company = Str(<<"North Texas Inspection Services">>)
         /\ ~HasMarker(c, MetroMarkers \cup NorthTexasMarkers) => IsNull(t.company)

\* A review whose span holds a field and "ntispros.com" only, while "METRO
\* CODE" stands after the span's end: the company is Metro Code Analysis.
C15_Witness ==
  \E i \in 1 .. Len(permits) :
    LET t == permits[i].third_party_review
        c == TextOf(i)
        ic == SpanText(c, ThirdPartySpan(c))
    IN /\ ~IsNull(t)
       /\ HasMarker(ic, {"NtisprosCom"})
       /\ ~HasMarker(ic, MetroMarkers)
       /\ c[Len(c)].k = "MetroCode"
       /\ t.company = Str(<<"Metro Code Analysis">>)

\* ---- approval table ----
StatusVocabulary ==
  { <<"A", "p", "p", "r", "o", "v", "e", "d">>, <<"Not Required">>,
    <<"Routed for Electronic Review">>, <<"Issued">>, <<"Opt-Out">>,
    <<"Corrections Required">>, <<"Finaled">>, <<"Close">>, <<"Pending">> }
TableOf(content) ==
  IF IsNull(ApprovalTableSpan(content)) THEN << >>
  ELSE SpanText(content, ApprovalTableSpan(content))
RowLines(tc) == {j \in 1 .. Len(tc) : tc[j].k = "TaskRow"}

\* C16: every line of the approval table with a task name, two blanks and a
\* status of the vocabulary gives one ApprovalTask, whether or not a date
\* and a reviewer follow and also when the line ends after the status; the
\* status of every task is of the vocabulary and other lines give no task.
C16_RowsWithOptionalDateAndReviewer ==
  \A i \in 1 .. Len(permits) :
    LET tc == TableOf(TextOf(i))
        tasks == permits[i].approval_tasks.arr
    IN /\ Len(tasks) = Cardinality(RowLines(tc))
       /\ \A k \in 1 .. Len(tasks) : tasks[k].status.str \in StatusVocabulary

\* ---- side setbacks ----
\* The sides variant the record's side setbacks come from (null when none
\* matches the zoning text of the i-th record).
SidesOf(i) ==
  Cascade(<<sidesMatch1(ZoningContent(TextOf(i))), sidesMatch2(ZoningContent(TextOf(i)))>>)

\* C17: in every record, side_left and side_right have the same maximum when
\* both are present, and when the side minimum was recovered both are
\* present with that minimum, each with the provided value of its own
\* capture.
C17_SideMinimumShared ==
  \A i \in 1 .. Len(permits) :
    LET z == permits[i].zoning_review
    IN ~IsNull(z) =>
         LET l == z.setbacks.side_left
             r == z.setbacks.side_right
             m == SidesOf(i)
         IN /\ (~IsNull(l) /\ ~IsNull(r)) => l.maximum = r.maximum
            /\ ~IsNull(m) =>
                 /\ ~IsNull(l) /\ ~IsNull(r)
                 /\ l.maximum = parseFeet(m.g1) /\ r.maximum = parseFeet(m.g1)
                 /\ l.provided = parseFeet(m.g2)
                 /\ r.provided = parseFeet(m.g3)
            /\ IsNull(m) => IsNull(l) /\ IsNull(r)

\* A record whose left side has no provided value while the right side has
\* one, both under the minimum 5.
C17_Witness ==
  \E i \in 1 .. Len(permits) :
    LET z == permits[i].zoning_review
    IN /\ ~IsNull(z)
       /\ z.setbacks.side_left = [maximum |-> Num(500), provided |-> JsNull]
       /\ z.setbacks.side_right = [maximum |-> Num(500), provided |-> Num(600)]

\* ---- dates ----
\* The date a text begins with, written M/D/YYYY or MM/DD/YYYY, as
\* YYYY-MM-DD with month and day of two digits; null when it begins with
\* none.
AllDigits(t, a, b) == \A k \in a .. b : k <= Len(t) /\ t[k] \in Digits
TwoDigits(t) == IF Len(t) = 1 THEN <<"0">> \o t ELSE t
ExpectedDate(t) ==
  LET Shapes == { ab \in (1 .. 2) \X (1 .. 2) :
                    /\ Len(t) >= ab[1] + ab[2] + 6
                    /\ AllDigits(t, 1, ab[1])
                    /\ t[ab[1] + 1] = "/"
                    /\ AllDigits(t, ab[1] + 2, ab[1] + ab[2] + 1)
                    /\ t[ab[1] + ab[2] + 2] = "/"
                    /\ AllDigits(t, ab[1] + ab[2] + 3, ab[1] + ab[2] + 6) }
      Of(ab) == Str(SubSeq(t, ab[1] + ab[2] + 3, ab[1] + ab[2] + 6) \o <<"-">>
                    \o TwoDigits(SubSeq(t, 1, ab[1])) \o <<"-">>
                    \o TwoDigits(SubSeq(t, ab[1] + 2, ab[1] + ab[2] + 1)))
  IN IF Shapes = {} THEN JsNull ELSE Of(CHOOSE ab \in Shapes : TRUE)
\* The text after "N. " of an item line up to its " - ".
ItemDateText(v) == SubSeq(v, 4, Len(v) - 5)

\* C18: the date_submitted of a record is the date its "Date Submitted:" line
\* holds, as YYYY-MM-DD with month and day zero-padded, and null when the
\* line holds no M/D/YYYY date; the same for the date of a correction item.
C18_DatesAreIso ==
  \A i \in 1 .. Len(permits) :
    LET c == TextOf(i)
        corr == permits[i].corrections.arr
    IN /\ (c # << >> /\ c[1].k = "DateSubmitted")
            => permits[i].application.date_submitted = ExpectedDate(c[1].v)
       /\ (Len(c) = 5 /\ c[4].k = "Item" /\ Len(corr) = 1 /\ Len(corr[1].items.arr) = 1)
            => corr[1].items.arr[1].date = ExpectedDate(ItemDateText(c[4].v))

\* "Date Submitted: 3/4/2024" gives "2024-03-04", beside an item dated
\* 12/14/24, whose date is null.
C18_Witness ==
  \E i \in 1 .. Len(permits) :
    LET c == TextOf(i)
        corr == permits[i].corrections.arr
    IN /\ Len(c) = 5
       /\ c[1] = Chunk("DateSubmitted", <<"3", "/", "4", "/", "2", "0", "2", "4">>)
       /\ permits[i].application.date_submitted
            = Str(<<"2", "0", "2", "4", "-", "0", "3", "-", "0", "4">>)
       /\ ItemDateText(c[4].v) = <<"1", "2", "/", "1", "4", "/", "2", "4">>
       /\ Len(corr) = 1 /\ Len(corr[1].items.arr) = 1
       /\ IsNull(corr[1].items.arr[1].date)

\* ---- feet and inches ----
\* The provided text "F' I"", "F'" or "F" of the document of the i-th record
\* (after the blank), its feet F, and its inches I when it has some.
ProvidedText(i) == Tail(TextOf(i)[3].v)
HasInches(v) == v[Len(v)] = "\""
FeetText(v) == SubSeq(v, 1, FirstIn({k \in 1 .. Len(v) : v[k] = "'"}, Len(v)) - 1)
InchesText(v) == SubSeq(v, Len(FeetText(v)) + 3, Len(v) - 1)
\* The setback the i-th record has for the label of its document.
Labelled(i) ==
  IF TextOf(i)[2].k = "Front" THEN permits[i].zoning_review.setbacks.front
  ELSE permits[i].zoning_review.setbacks.rear
FromFeetDocs(i) ==
  /\ Len(TextOf(i)) = 3
  /\ TextOf(i)[2].k \in {"Front", "Rear"}
  /\ TextOf(i)[3].k = "ParenProvided"
FeetPlusInches(i) ==
  LET v == ProvidedText(i)
  IN HasInches(v) =>
       Labelled(i).provided
         = Num((1200 * DigitsVal(FeetText(v)) + 100 * DigitsVal(InchesText(v)) + 6) \div 12)

\* C19 as stated: feet and whole inches give F + I/12 rounded to two
\* decimals, and a bare integer or decimal F gives F itself.
C19_FeetAsStated ==
  \A i \in 1 .. Len(permits) :
    FromFeetDocs(i) =>
      /\ Labelled(i).maximum = Num(100 * DigitsVal(TextOf(i)[2].v))
      /\ FeetPlusInches(i)
      /\ ~HasInches(ProvidedText(i)) =>
           10 * Labelled(i).provided.num = DecimalThousandths(FeetText(ProvidedText(i)))

\* C19: feet and whole inches give F + I/12 rounded to two decimals, and a
\* bare integer or decimal F gives F rounded to two decimals.
C19_FeetRounded ==
  \A i \in 1 .. Len(permits) :
    FromFeetDocs(i) =>
      /\ Labelled(i).maximum = Num(100 * DigitsVal(TextOf(i)[2].v))
      /\ FeetPlusInches(i)
      /\ ~HasInches(ProvidedText(i)) =>
           Labelled(i).provided
             = Num((DecimalThousandths(FeetText(ProvidedText(i))) + 5) \div 10)

\* "Front: 20' minimum (Provided 26' 8")" gives {maximum: 20, provided: 26.67}.
C19_Witness ==
  \E i \in 1 .. Len(permits) :
    /\ FromFeetDocs(i)
    /\ TextOf(i)[2] = Chunk("Front", <<"2", "0">>)
    /\ ProvidedText(i) = <<"2", "6", "'", " ", "8", "\"">>
    /\ permits[i].zoning_review.setbacks.front = [maximum |-> Num(2000), provided |-> Num(2667)]

\* ---- JSON round trip ----
\* JSON.parse of a text written by JSON.stringify.  One pass over the text
\* gives, for every position, the mode after its character ("out" of a
\* string, "in" one, or "esc" after a backslash), the number d of brackets
\* open after it, and the kind k of the character: "s" outside strings
\* (quotes included), "c" a character of a string, "b" the backslash of an
\* escape, "e" the character after it.
Unescape(c) ==
  IF \E k \in DOMAIN EscapeLetters : EscapeLetters[k] = c
  THEN Escapes[CHOOSE k \in DOMAIN EscapeLetters : EscapeLetters[k] = c]
  ELSE c
LexStart == [m |-> "out", d |-> 0, k |-> "s"]
LexStep(s, c) ==
  IF s.m = "esc" THEN [m |-> "in", d |-> s.d, k |-> "e"]
  ELSE IF s.m = "in"
  THEN (IF c = "\\" THEN [m |-> "esc", d |-> s.d, k |-> "b"]
        ELSE IF c = "\"" THEN [m |-> "out", d |-> s.d, k |-> "s"]
        ELSE [m |-> "in", d |-> s.d, k |-> "c"])
  ELSE [m |-> IF c = "\"" THEN "in" ELSE "out",
        d |-> IF c \in {"[", "{"} THEN s.d + 1
              ELSE IF c \in {"]", "}"} THEN s.d - 1 ELSE s.d,
        k |-> "s"]
RECURSIVE Lex(_, _, _, _)
Lex(t, lo, hi, s0) ==
  LET Then(left) == left \o Lex(t, (lo + hi) \div 2 + 1, hi, left[Len(left)])
  IN IF lo > hi THEN << >>
     ELSE IF lo = hi THEN <<LexStep(s0, t[lo])>>
     ELSE Then(Lex(t, lo, (lo + hi) \div 2, s0))

\* The characters of the string whose text is at lo .. hi between its quotes.
RECURSIVE StringChars(_, _, _, _)
StringChars(t, lx, lo, hi) ==
  IF lo > hi THEN << >>
  ELSE IF lo = hi
  THEN (IF lx[lo].k = "b" THEN << >>
        ELSE IF lx[lo].k = "e" THEN <<Unescape(t[lo])>> ELSE <<t[lo]>>)
  ELSE StringChars(t, lx, lo, (lo + hi) \div 2)
       \o StringChars(t, lx, (lo + hi) \div 2 + 1, hi)

\* The elements of a set of positions in increasing order.
Ascending(S) == [n \in 1 .. Cardinality(S) |-> CHOOSE q \in S : Cardinality({r \in S : r <= q}) = n]

\* The value written at lo .. hi.  An array or an object is cut at its own
\* commas: those outside strings at the bracket depth of its opening.
RECURSIVE ParseRange(_, _, _, _)
ParseRange(t, lx, lo, hi) ==
  LET Cuts == Ascending({lo, hi} \cup {q \in (lo + 1) .. (hi - 1) :
                          lx[q].k = "s" /\ t[q] = "," /\ lx[q].d = lx[lo].d})
      Parts(cuts) == IF hi = lo + 1 THEN {} ELSE 1 .. (Len(cuts) - 1)
      Element(cuts, n) == ParseRange(t, lx, cuts[n] + 1, cuts[n + 1] - 1)
      Member(cuts, n) == ParseRange(t, lx, cuts[n] + 5, cuts[n + 1] - 1)
      LastOf(cuts, key) ==
        CHOOSE n \in Parts(cuts) :
          /\ t[cuts[n] + 2] = key
          /\ \A j \in Parts(cuts) : t[cuts[j] + 2] = key => j <= n
      Array(cuts) == Arr([n \in Parts(cuts) |-> Element(cuts, n)])
      Object(cuts) == [key \in {t[cuts[n] + 2] : n \in Parts(cuts)} |->
                         Member(cuts, LastOf(cuts, key))]
  IN IF t[lo] = "n" THEN JsNull
     ELSE IF t[lo] = "\"" THEN Str(StringChars(t, lx, lo + 1, hi - 1))
     ELSE IF t[lo] = "[" THEN Array(Cuts)
     ELSE IF t[lo] = "{" THEN Object(Cuts)
     ELSE Num(DecimalHundredths(Slice(t, lo, hi + 1)))
JSONparse(t) == ParseRange(t, Lex(t, 1, Len(t), LexStart), 1, Len(t))

Events(e, p) == {k \in 1 .. Len(log) : log[k] = Ev(e, p)}
Listed(list, p) == \E k \in 1 .. Len(list) : list[k] = p
FailedPermits == [k \in 1 .. Len(failed) |-> failed[k].permit]

EventsIn(l, e, p) == {k \in 1 .. Len(l) : l[k] = Ev(e, p)}
\* The step is a call of processPermit for p.
Attempted(p) ==
  /\ at = "retry"
  /\ EventsIn(log', "Processing", p) # EventsIn(log, "Processing", p)

\* C22: without --force a permit whose <P>_Comments.pdf is already there is
\* skipped at its first attempt: it is never searched, nothing is clicked or
\* saved for it and the file stays as it was; with --force an existing
\* file does not stop the attempt, which goes on to the search.
C22_ExistingFileSkipped ==
  [][\A p \in CsvNumbers :
       comments[p] = OldPdf(p) =>
         IF cmd.force
         THEN Attempted(p) => at' = "search"
         ELSE /\ comments'[p] = OldPdf(p)
              /\ EventsIn(log', "search", p) = {}
              /\ EventsIn(log', "click", p) = {}
              /\ EventsIn(log', "Saved", p) = {}
              /\ Attempted(p) =>
                   /\ attempt = 0
                   /\ at' = "push"
                   /\ lastResult'.skipped /\ lastResult'.success
                   /\ EventsIn(log', "Skipped", p) # {}]_vars

\* A run without --force that is over: the permit whose file was there is
\* skipped after one attempt and its file is the old one, while the other
\* permit was searched and downloaded.
C22_Witness ==
  /\ at = "done"
  /\ ~cmd.force
  /\ skipped = <<PB1>>
  /\ Cardinality(Events("Processing", PB1)) = 1
  /\ comments[PB1] = OldPdf(PB1)
  /\ downloaded = <<PB2>>
  /\ comments[PB2] = Body(PB2)

\* A number parseCSV has to leave out: empty, blank, or containing "TMP".
Temporary(p) == p = << >> \/ trim(p) = << >> \/ includes(p, <<"T", "M", "P">>)
Rows(cs) == UNION { {cs[f][r] : r \in 1 .. Len(cs[f])} : f \in 1 .. Len(cs) }
Mentioned(p) == \E k \in 1 .. Len(log) : log[k].permit = p

\* C23: a permit number that contains "TMP", or is empty or blank, is never
\* searched, clicked, saved or otherwise mentioned in the run, and is never
\* among the downloaded, skipped or failed permits.
C23_NoTemporaryPermit ==
  \A p \in CsvNumbers :
    Temporary(p) =>
      /\ ~Listed(allPermits, p)
      /\ ~Listed(uniquePermits, p)
      /\ ~Mentioned(p)
      /\ ~Listed(downloaded, p)
      /\ ~Listed(skipped, p)
      /\ ~Listed(FailedPermits, p)
      /\ at # "off" => comments[p] = JsNull

\* The CSV file has a TMP row before a real one: the permits are collected
\* and the loop is about to begin with the real one alone.
C23_Witness ==
  /\ at = "for"
  /\ loopI = 1
  /\ csvs = << <<<<"P", "T", "M", "P", "3">>, PB1>> >>
  /\ allPermits = <<PB1>>
  /\ uniquePermits = <<PB1>>

Occurrences(list, p) == Cardinality({k \in 1 .. Len(list) : list[k] = p})
TimesListed(p) ==
  Occurrences(downloaded, p) + Occurrences(skipped, p) + Occurrences(FailedPermits, p)

\* C24: a permit number that several rows or files list is in uniquePermits
\* once and is processed once; a permit is in one of the lists downloaded,
\* skipped, failed exactly when the loop is past it, and in one only, so
\* when the loop has ended every unique permit is in exactly one list; the
\* counts of the summary add up to the number of unique permits.
C24_EachPermitOnce ==
  at \notin {"off", "start"} =>
    /\ \A p \in CsvNumbers :
         /\ Occurrences(uniquePermits, p) = (IF Listed(allPermits, p) THEN 1 ELSE 0)
         /\ ~Listed(uniquePermits, p) => TimesListed(p) = 0
    /\ \A x \in 1 .. Len(uniquePermits) :
         TimesListed(uniquePermits[x]) = (IF x < loopI THEN 1 ELSE 0)
    /\ Len(downloaded) + Len(skipped) + Len(failed) = loopI - 1
    /\ at = "done" =>
         /\ loopI = Len(uniquePermits) + 1
         /\ report.total = Len(uniquePermits)
         /\ report.downloaded = Len(downloaded)
         /\ report.skipped = Len(skipped)
         /\ report.failed = Len(failed)
         /\ report.downloaded + report.skipped + report.failed = report.total

\* Two files list the same permit; the run is over and the permit, tried
\* twice, is in the failed list once and in no other.
C24_Witness ==
  /\ at = "done"
  /\ allPermits = <<PB2, PB2>>
  /\ uniquePermits = <<PB2>>
  /\ Cardinality(Events("Processing", PB2)) = 2
  /\ FailedPermits = <<PB2>>
  /\ downloaded = << >> /\ skipped = << >>
  /\ report = [total |-> 1, downloaded |-> 0, skipped |-> 0, failed |-> 1]

\* C25: the bytes saved under a permit's name are the response to that
\* permit's own click: every file this run wrote holds the document of the
\* permit it is named after.
C25_SavedPdfIsOwn ==
  \A p \in CsvNumbers : ~IsNull(comments[p]) => comments[p].doc = p

\* ---- the extraction, continued ----
\* The number of characters after the second "/" of a date text M/D/Y, and 0
\* for a text that is not of that form.
YearLength(w) ==
  LET Slashes == {k \in 1 .. Len(w) : w[k] = "/"}
  IN IF Cardinality(Slashes) = 2 THEN Len(w) - SetMax(Slashes) ELSE 0

\* C26: an item "1. M/D/Y - text" whose year has two or three digits is
\* extracted with its number, a null date and the text without the date;
\* with a year of four digits the date is YYYY-MM-DD and the text is again
\* without the date; and an item's date is not null only when its date
\* text has a year of at least four digits.
C26_ShortYearGivesNullDate ==
  \A x \in 1 .. Len(permits) :
    LET c == TextOf(x)
        corr == permits[x].corrections.arr
        w == ItemDateText(c[4].v)
        One(date) == <<[number |-> Num(100), date |-> date, text |-> Str(<<"m", "v">>)]>>
    IN (Len(c) = 5 /\ c[4].k = "Item") =>
         /\ Len(corr) = 1
         /\ YearLength(w) \in {2, 3} => corr[1].items.arr = One(JsNull)
         /\ YearLength(w) = 4 =>
              /\ ~IsNull(ExpectedDate(w))
              /\ corr[1].items.arr = One(ExpectedDate(w))
         /\ \A k \in 1 .. Len(corr[1].items.arr) :
              ~IsNull(corr[1].items.arr[k].date) => YearLength(w) >= 4

\* The item "1. 3/4/024 - mv": number 1, no date, text "mv".
C26_Witness ==
  \E x \in 1 .. Len(permits) :
    LET c == TextOf(x)
    IN /\ Len(c) = 5
       /\ c[4] = Chunk("Item", <<"1", ".", " ", "3", "/", "4", "/", "0", "2", "4",
                                 " ", "-", " ", "m", "v">>)
       /\ permits[x].corrections.arr[1].items.arr
            = <<[number |-> Num(100), date |-> JsNull, text |-> Str(<<"m", "v">>)]>>

====
